---- MODULE Spec2Model ----
(***************************************************************************)
(* A model of the CTG analysis engine (aleks2525/ctg): signal primitives,  *)
(* variability, risk adjustment, the FIGO/NICE and NICHD/ACOG classifiers, *)
(* the hypoxia estimator, the forecast synthesizer and the session service *)
(* that runs them and stores the results.                                  *)
(*                                                                         *)
(* Units.  FHR samples are whole beats per minute.  A median of an even    *)
(* number of samples is a half, and a median of such medians a quarter, so *)
(* every baseline is carried in QUARTER beats per minute (560 = 140 bpm).  *)
(* A variability is the rational num/den (den > 0), never rounded.  A      *)
(* hypoxia risk of one window is carried in TENTHS (0..10).                *)
(***************************************************************************)
EXTENDS Integers, Sequences, FiniteSets, TLC

VARIABLES
    args,             \* arguments of the function invocation being examined
    ret,              \* what that invocation returned ([fn |-> "none"] before it ran)
    patient,          \* the stored Patient row: risk-factor columns
    files,            \* the uploaded FHR/UC files of the session
    db_session,       \* the stored CTGSession row (analysis columns)
    analysis_result,  \* what the last analyze request returned
    test_data_generator  \* the global TestDataGenerator of the demo routes

vars == <<args, ret, patient, files, db_session, analysis_result, test_data_generator>>

svcVars == <<patient, files, db_session, analysis_result, test_data_generator>>
fnVars == <<args, ret>>

----------------------------------------------------------------------------
(* Small helpers *)

Min(a, b) == IF a <= b THEN a ELSE b
Max(a, b) == IF a >= b THEN a ELSE b
Abs(a) == IF a >= 0 THEN a ELSE -a
Range(s) == {s[i] : i \in 1..Len(s)}

RECURSIVE SumSeq(_)
\* sum(s), adding the two halves so that long recordings stay shallow
SumSeq(s) ==
    IF s = <<>> THEN 0
    ELSE IF Len(s) = 1 THEN s[1]
    ELSE SumSeq(SubSeq(s, 1, Len(s) \div 2)) + SumSeq(SubSeq(s, Len(s) \div 2 + 1, Len(s)))

\* Python's s[i:j] on 0-based indices, clipped to the list as slicing does
Slice(s, i, j) == SubSeq(s, i + 1, Min(j, Len(s)))

----------------------------------------------------------------------------
(* ctg_analysis/common.py *)

\* np.median of a non-empty list, times two: the sorted middle element, or the
\* mean of the two middle elements
NpMedian2(s) ==
    LET srt == SortSeq(s, LAMBDA a, b : a < b)
        n == Len(s)
    IN  IF n % 2 = 1 THEN 2 * srt[(n + 1) \div 2]
        ELSE srt[n \div 2] + srt[n \div 2 + 1]

WindowSize == 10

\* calc_baseline without the sliding-window smoothing: the plain median of the
\* filtered samples whatever their number
calc_baseline_plain(fhr_series) ==
    LET filtered == SelectSeq(fhr_series, LAMBDA fhr : 50 <= fhr /\ fhr <= 200)
    IN  IF filtered = <<>> THEN 0 ELSE 2 * NpMedian2(filtered)

\* calc_baseline, in quarter bpm
calc_baseline(fhr_series) ==
    IF fhr_series = <<>> THEN 0
    ELSE LET filtered == SelectSeq(fhr_series, LAMBDA fhr : 50 <= fhr /\ fhr <= 200)
         IN  IF filtered = <<>> THEN 0
             ELSE IF Len(filtered) < WindowSize THEN 2 * NpMedian2(filtered)
             ELSE LET windowed_medians ==
                          [i \in 1..(Len(filtered) - WindowSize + 1) |->
                              NpMedian2(Slice(filtered, i - 1, i - 1 + WindowSize))]
                  IN  NpMedian2(windowed_medians)

MinRunLength == 15

\* one pass of the for loop of detect_accelerations: limit is baseline + threshold
\* in quarter bpm
AccelStep(st, fhr, limit) ==
    IF 4 * fhr >= limit
    THEN [in_acceleration |-> TRUE,
          acceleration_length |-> IF st.in_acceleration THEN st.acceleration_length + 1
                                  ELSE 1,
          accelerations_count |-> st.accelerations_count]
    ELSE [in_acceleration |-> FALSE,
          acceleration_length |-> 0,
          accelerations_count |-> IF st.in_acceleration
                                     /\ st.acceleration_length >= MinRunLength
                                  THEN st.accelerations_count + 1
                                  ELSE st.accelerations_count]

\* the for loop of detect_accelerations and the check that follows it; Scan gives
\* the loop variables after the passes over s[lo..hi] started from st, half by half
AccelLoop(s, limit) ==
    LET Scan[lo \in Nat, hi \in Nat, st \in [in_acceleration : BOOLEAN,
                                             acceleration_length : Nat,
                                             accelerations_count : Nat]] ==
            IF lo > hi THEN st
            ELSE IF lo = hi THEN AccelStep(st, s[lo], limit)
            ELSE Scan[(lo + hi) \div 2 + 1, hi, Scan[lo, (lo + hi) \div 2, st]]
        end == Scan[1, Len(s), [in_acceleration |-> FALSE, acceleration_length |-> 0,
                                accelerations_count |-> 0]]
    IN  IF end.in_acceleration /\ end.acceleration_length >= MinRunLength
        THEN end.accelerations_count + 1
        ELSE end.accelerations_count

\* detect_accelerations ignoring the gestational age: the threshold is always 15
detect_accelerations_fixed_threshold(fhr_series, baseline, ga_weeks) ==
    IF fhr_series = <<>> \/ baseline = 0 THEN 0
    ELSE AccelLoop(fhr_series, baseline + 4 * 15)

detect_accelerations(fhr_series, baseline, ga_weeks) ==
    IF fhr_series = <<>> \/ baseline = 0 THEN 0
    ELSE LET threshold == IF ga_weeks < 32 THEN 10 ELSE 15
         IN  AccelLoop(fhr_series, baseline + 4 * threshold)

\* one pass of the for loop of detect_decelerations: limit is baseline - threshold
\* in quarter bpm
DecelStep(st, fhr, limit) ==
    IF 4 * fhr <= limit
    THEN [in_deceleration |-> TRUE,
          deceleration_length |-> IF st.in_deceleration THEN st.deceleration_length + 1
                                  ELSE 1,
          decelerations_count |-> st.decelerations_count]
    ELSE [in_deceleration |-> FALSE,
          deceleration_length |-> 0,
          decelerations_count |-> IF st.in_deceleration
                                     /\ st.deceleration_length >= MinRunLength
                                  THEN st.decelerations_count + 1
                                  ELSE st.decelerations_count]

\* the for loop of detect_decelerations and the check that follows it
DecelLoop(s, limit) ==
    LET Scan[lo \in Nat, hi \in Nat, st \in [in_deceleration : BOOLEAN,
                                             deceleration_length : Nat,
                                             decelerations_count : Nat]] ==
            IF lo > hi THEN st
            ELSE IF lo = hi THEN DecelStep(st, s[lo], limit)
            ELSE Scan[(lo + hi) \div 2 + 1, hi, Scan[lo, (lo + hi) \div 2, st]]
        end == Scan[1, Len(s), [in_deceleration |-> FALSE, deceleration_length |-> 0,
                                decelerations_count |-> 0]]
    IN  IF end.in_deceleration /\ end.deceleration_length >= MinRunLength
        THEN end.decelerations_count + 1
        ELSE end.decelerations_count

DecelThreshold == 15

\* detect_decelerations with the preterm threshold of the accelerations
detect_decelerations_preterm(fhr_series, baseline) ==
    IF fhr_series = <<>> \/ baseline = 0 THEN 0
    ELSE DecelLoop(fhr_series, baseline - 4 * 10)

detect_decelerations(fhr_series, baseline) ==
    IF fhr_series = <<>> \/ baseline = 0 THEN 0
    ELSE DecelLoop(fhr_series, baseline - 4 * DecelThreshold)

----------------------------------------------------------------------------
(* ctg_analysis/variability.py *)

Rat(n, d) == [num |-> n, den |-> d]

\* calculate_short_term_variability: the mean absolute successive difference
calculate_short_term_variability(fhr_series) ==
    IF Len(fhr_series) < 2 THEN Rat(0, 1)
    ELSE LET differences == [i \in 1..(Len(fhr_series) - 1) |->
                                Abs(fhr_series[i + 1] - fhr_series[i])]
         IN  Rat(SumSeq(differences), Len(differences))

\* calculate_variability dividing the sum of the differences by their number
\* whatever the length: 0/0 (nan) for fewer than two samples
calculate_variability_unguarded(fhr_series) ==
    LET differences == [i \in 1..(Len(fhr_series) - 1) |->
                           Abs(fhr_series[i + 1] - fhr_series[i])]
    IN  Rat(SumSeq(differences), Len(differences))

\* calculate_variability with its default method, "short_term"
calculate_variability(fhr_series) ==
    IF fhr_series = <<>> \/ Len(fhr_series) < 2 THEN Rat(0, 1)
    ELSE calculate_short_term_variability(fhr_series)

SeqMax(s) == CHOOSE v \in Range(s) : \A w \in Range(s) : w <= v
SeqMin(s) == CHOOSE v \in Range(s) : \A w \in Range(s) : v <= w

LtvWindow == 60

\* calculate_long_term_variability with window_minutes = 1: the mean of max - min
\* over consecutive windows; np.max of an empty list raises ValueError
calculate_long_term_variability(fhr_series) ==
    IF fhr_series = <<>> THEN [raised |-> TRUE]
    ELSE IF Len(fhr_series) < LtvWindow
    THEN [raised |-> FALSE, value |-> Rat(SeqMax(fhr_series) - SeqMin(fhr_series), 1)]
    ELSE LET count == Len(fhr_series) \div LtvWindow
             variabilities ==
                 [k \in 1..count |->
                     LET window == Slice(fhr_series, (k - 1) * LtvWindow, k * LtvWindow)
                     IN  SeqMax(window) - SeqMin(window)]
         IN  [raised |-> FALSE, value |-> Rat(SumSeq(variabilities), count)]

\* calculate_variability with the method given
calculate_variability_by(fhr_series, method) ==
    IF fhr_series = <<>> \/ Len(fhr_series) < 2 THEN Rat(0, 1)
    ELSE IF method = "long_term" THEN calculate_long_term_variability(fhr_series).value
    ELSE calculate_short_term_variability(fhr_series)

\* classify_variability with the lower edge of "moderate" taken by "minimal"
classify_variability_edge(variability) ==
    IF variability.num = 0 THEN "absent"
    ELSE IF variability.num <= 5 * variability.den THEN "minimal"
    ELSE IF variability.num <= 25 * variability.den THEN "moderate"
    ELSE "marked"

classify_variability(variability) ==
    IF variability.num = 0 THEN "absent"
    ELSE IF variability.num < 5 * variability.den THEN "minimal"
    ELSE IF 5 * variability.den <= variability.num
            /\ variability.num <= 25 * variability.den THEN "moderate"
    ELSE "marked"

----------------------------------------------------------------------------
(* ctg_analysis/risk_adjustment.py *)

\* A risk-factor dict maps keys to "True", "False" or "None" (a NULL column)
RISK_SCORES ==
    [diabetes |-> 2, anemia |-> 1, hypertension |-> 2, preeclampsia |-> 3,
     infections |-> 2, multiple |-> 2, placenta |-> 3, term |-> 2]

Truthy(value) == value = "True"

RECURSIVE SumOver(_, _)
\* the sum of f[k] over the keys k of set
SumOver(f, set) ==
    IF set = {} THEN 0
    ELSE LET k == CHOOSE x \in set : TRUE
         IN  f[k] + SumOver(f, set \ {k})

\* calculate_risk_score without the test of the value
calculate_risk_score_any_value(risk_factors) ==
    SumOver(RISK_SCORES, {key \in DOMAIN risk_factors : key \in DOMAIN RISK_SCORES})

\* lines 31-34 run over the items of a dict in their insertion order
calculate_risk_score_items(items) ==
    LET Loop[i \in 0..Len(items)] ==
            IF i = 0 THEN 0
            ELSE IF Truthy(items[i][2]) /\ items[i][1] \in DOMAIN RISK_SCORES
                 THEN Loop[i - 1] + RISK_SCORES[items[i][1]]
                 ELSE Loop[i - 1]
    IN  Loop[Len(items)]

calculate_risk_score(risk_factors) ==
    SumOver(RISK_SCORES,
            {key \in DOMAIN risk_factors :
                Truthy(risk_factors[key]) /\ key \in DOMAIN RISK_SCORES})

\* code_map of adjust_figo_classification with a label misspelt, so that the
\* lookup of "Pathological" falls back to 0
FigoCodeMapTypo == [Normal |-> 0, Suspicious |-> 1, Patological |-> 2]

FigoCodeMap == [Normal |-> 0, Suspicious |-> 1, Pathological |-> 2]

CodeMapGet(code_map, label) ==
    IF label \in DOMAIN code_map THEN code_map[label] ELSE 0

RiskThreshold == 4

\* adjust_figo_classification escalating only when the score exceeds the threshold
adjust_figo_classification_strict(base_label, risk_score) ==
    LET escalate == risk_score > RiskThreshold
        adjusted_label ==
            IF escalate /\ base_label = "Normal" THEN "Suspicious"
            ELSE IF escalate /\ base_label = "Suspicious" THEN "Pathological"
            ELSE base_label
    IN  [original_label |-> base_label,
         adjusted_label |-> adjusted_label,
         code |-> CodeMapGet(FigoCodeMap, adjusted_label),
         adjustment_applied |-> escalate /\ base_label \in {"Normal", "Suspicious"},
         risk_score |-> risk_score]

adjust_figo_classification(base_label, risk_score) ==
    LET escalate == risk_score >= RiskThreshold
        adjusted_label ==
            IF escalate /\ base_label = "Normal" THEN "Suspicious"
            ELSE IF escalate /\ base_label = "Suspicious" THEN "Pathological"
            ELSE base_label
    IN  [original_label |-> base_label,
         adjusted_label |-> adjusted_label,
         code |-> CodeMapGet(FigoCodeMap, adjusted_label),
         adjustment_applied |-> escalate /\ base_label \in {"Normal", "Suspicious"},
         risk_score |-> risk_score]

NichdCodeMap == [i \in {"Category I", "Category II", "Category III"} |->
                    IF i = "Category I" THEN 0 ELSE IF i = "Category II" THEN 1 ELSE 2]

adjust_nichd_classification(base_label, risk_score) ==
    LET escalate == risk_score >= RiskThreshold
        adjusted_label ==
            IF escalate /\ base_label = "Category I" THEN "Category II"
            ELSE IF escalate /\ base_label = "Category II" THEN "Category III"
            ELSE base_label
    IN  [original_label |-> base_label,
         adjusted_label |-> adjusted_label,
         code |-> CodeMapGet(NichdCodeMap, adjusted_label),
         adjustment_applied |-> escalate /\ base_label \in {"Category I", "Category II"},
         risk_score |-> risk_score]

----------------------------------------------------------------------------
(* ctg_analysis/figo_nice.py; baselines in quarter bpm *)

evaluate_baseline(baseline) ==
    IF 4 * 110 <= baseline /\ baseline <= 4 * 160 THEN "reassuring"
    ELSE IF (4 * 100 <= baseline /\ baseline < 4 * 110)
            \/ (4 * 161 <= baseline /\ baseline <= 4 * 180) THEN "non-reassuring"
    ELSE "abnormal"

evaluate_variability(variability, var_class) ==
    IF var_class = "moderate" THEN "reassuring"
    ELSE IF var_class \in {"minimal", "marked"} THEN "non-reassuring"
    ELSE "abnormal"

\* evaluate_accelerations asking for three accelerations instead of two
evaluate_accelerations_three(accels) ==
    IF accels >= 3 THEN "reassuring" ELSE "non-reassuring"

evaluate_accelerations(accels) ==
    IF accels >= 2 THEN "reassuring" ELSE "non-reassuring"

evaluate_decelerations(decels_count) ==
    IF decels_count = 0 THEN "reassuring"
    ELSE IF decels_count < 3 THEN "non-reassuring"
    ELSE "abnormal"

\* step 3 of classify_figo overlooking the last criterion when it looks for an
\* abnormal evaluation
figo_base_classification_first_three(evaluations) ==
    IF \A i \in 1..Len(evaluations) : evaluations[i] = "reassuring"
    THEN [label |-> "Normal", code |-> 0]
    ELSE IF \E i \in 1..(Len(evaluations) - 1) : evaluations[i] = "abnormal"
    THEN [label |-> "Pathological", code |-> 2]
    ELSE [label |-> "Suspicious", code |-> 1]

\* step 3 of classify_figo: the base label and code from the list of evaluations
figo_base_classification(evaluations) ==
    IF \A i \in 1..Len(evaluations) : evaluations[i] = "reassuring"
    THEN [label |-> "Normal", code |-> 0]
    ELSE IF \E i \in 1..Len(evaluations) : evaluations[i] = "abnormal"
    THEN [label |-> "Pathological", code |-> 2]
    ELSE [label |-> "Suspicious", code |-> 1]

\* the result dict of classify_figo, without its display-only copies (source
\* name, rounded baseline and variability, reason text)
classify_figo(fhr_series, risk_factors, ga_weeks) ==
    LET baseline == calc_baseline(fhr_series)
        variability_value == calculate_variability(fhr_series)
        var_class == classify_variability(variability_value)
        accels == detect_accelerations(fhr_series, baseline, ga_weeks)
        decels_count == detect_decelerations(fhr_series, baseline)
        baseline_eval == evaluate_baseline(baseline)
        variability_eval == evaluate_variability(variability_value, var_class)
        accels_eval == evaluate_accelerations(accels)
        decels_eval == evaluate_decelerations(decels_count)
        evaluations == <<baseline_eval, variability_eval, accels_eval, decels_eval>>
        base == figo_base_classification(evaluations)
        risk_score == calculate_risk_score(risk_factors)
        adjustment == adjust_figo_classification(base.label, risk_score)
    IN  [baseline |-> baseline,
         variability |-> variability_value,
         variability_class |-> var_class,
         accelerations |-> accels,
         decelerations |-> decels_count,
         evaluations |-> [baseline |-> baseline_eval, variability |-> variability_eval,
                          accelerations |-> accels_eval, decelerations |-> decels_eval],
         base_classification |-> base,
         final_classification |-> [label |-> adjustment.adjusted_label,
                                   code |-> adjustment.code],
         risk_adjustment |-> [applied |-> adjustment.adjustment_applied,
                              risk_score |-> risk_score],
         label |-> adjustment.adjusted_label,
         code |-> adjustment.code]

----------------------------------------------------------------------------
(* ctg_analysis/nichd_acog.py *)

\* classify_nichd_category without the bradycardia condition of Category III
classify_nichd_category_no_bradycardia(baseline, var_class, accels, decels_count, dec_pattern) ==
    IF 4 * 110 <= baseline /\ baseline <= 4 * 160
       /\ var_class = "moderate"
       /\ dec_pattern \in {"none", "early"}
    THEN [label |-> "Category I", code |-> 0]
    ELSE IF var_class = "absent"
            /\ (dec_pattern \in {"late", "variable"} \/ decels_count > 3)
    THEN [label |-> "Category III", code |-> 2]
    ELSE [label |-> "Category II", code |-> 1]

classify_nichd_category(baseline, var_class, accels, decels_count, dec_pattern) ==
    IF 4 * 110 <= baseline /\ baseline <= 4 * 160
       /\ var_class = "moderate"
       /\ dec_pattern \in {"none", "early"}
    THEN [label |-> "Category I", code |-> 0]
    ELSE IF var_class = "absent"
            /\ (dec_pattern \in {"late", "variable"}
                \/ baseline < 4 * 110
                \/ decels_count > 3)
    THEN [label |-> "Category III", code |-> 2]
    ELSE [label |-> "Category II", code |-> 1]

\* the deceleration pattern classify_nichd derives from the count
deceleration_pattern(decels_count) ==
    IF decels_count = 0 THEN "none"
    ELSE IF decels_count <= 2 THEN "early"
    ELSE IF decels_count <= 5 THEN "variable"
    ELSE "late"

classify_nichd(fhr_series, risk_factors, ga_weeks) ==
    LET baseline == calc_baseline(fhr_series)
        variability_value == calculate_variability(fhr_series)
        var_class == classify_variability(variability_value)
        accels == detect_accelerations(fhr_series, baseline, ga_weeks)
        decels_count == detect_decelerations(fhr_series, baseline)
        dec_pattern == deceleration_pattern(decels_count)
        base == classify_nichd_category(baseline, var_class, accels, decels_count,
                                        dec_pattern)
        risk_score == calculate_risk_score(risk_factors)
        adjustment == adjust_nichd_classification(base.label, risk_score)
    IN  [baseline |-> baseline,
         variability |-> variability_value,
         variability_class |-> var_class,
         accelerations |-> accels,
         decelerations |-> [count |-> decels_count, pattern |-> dec_pattern],
         base_classification |-> base,
         final_classification |-> [label |-> adjustment.adjusted_label,
                                   code |-> adjustment.code],
         risk_adjustment |-> [applied |-> adjustment.adjustment_applied,
                              risk_score |-> risk_score],
         label |-> adjustment.adjusted_label,
         code |-> adjustment.code]

----------------------------------------------------------------------------
(* ctg_analysis/hypoxia.py; a window's risk is in tenths, its baseline in   *)
(* quarter bpm, a variability is a rational or NoneValue                    *)

NoneValue == [none |-> TRUE]
IsNone(v) == "none" \in DOMAIN v

THRESH_ACCEL == 15
THRESH_DECEL == 15

\* detect_accelerations_in_window: (accel_present, accel_count)
detect_accelerations_in_window(window_fhr, baseline, threshold) ==
    LET hits == {k \in 1..Len(window_fhr) : 4 * window_fhr[k] >= baseline + 4 * threshold}
    IN  [present |-> hits # {}, count |-> Cardinality(hits)]

\* detect_decelerations_in_window: (decel_present, decel_count)
detect_decelerations_in_window(window_fhr, baseline, threshold) ==
    LET hits == {k \in 1..Len(window_fhr) : 4 * window_fhr[k] <= baseline - 4 * threshold}
    IN  [present |-> hits # {}, count |-> Cardinality(hits)]

ContractionThreshold == 15

\* one pass of the for loop of count_contractions
ContractionStep(st, value) ==
    IF value > ContractionThreshold
    THEN [in_contraction |-> TRUE,
          contractions |-> IF st.in_contraction THEN st.contractions
                           ELSE st.contractions + 1]
    ELSE [in_contraction |-> FALSE, contractions |-> st.contractions]

\* the for loop of count_contractions
ContractionLoop(s) ==
    LET Scan[lo \in Nat, hi \in Nat, st \in [in_contraction : BOOLEAN, contractions : Nat]] ==
            IF lo > hi THEN st
            ELSE IF lo = hi THEN ContractionStep(st, s[lo])
            ELSE Scan[(lo + hi) \div 2 + 1, hi, Scan[lo, (lo + hi) \div 2, st]]
    IN  Scan[1, Len(s), [in_contraction |-> FALSE, contractions |-> 0]].contractions

count_contractions(uc_series) ==
    IF uc_series = <<>> THEN 0 ELSE ContractionLoop(uc_series)

\* total_score with the deceleration count divided by 4 instead of 5
WindowScoreByFour(baseline, variability, accel_present, decel_present, accel_count, decel_count) ==
    LET baseline_score ==
            IF baseline = 0 THEN 2
            ELSE IF 4 * 110 <= baseline /\ baseline <= 4 * 160 THEN 0
            ELSE IF (4 * 105 <= baseline /\ baseline < 4 * 110)
                    \/ (4 * 160 < baseline /\ baseline <= 4 * 165) THEN 1
            ELSE 2
        var_score ==
            IF IsNone(variability) THEN 2
            ELSE IF variability.num = 0 THEN 2
            ELSE IF variability.num >= 5 * variability.den THEN 0
            ELSE IF 3 * variability.den <= variability.num
                    /\ variability.num < 5 * variability.den THEN 1
            ELSE 2
        dec_score == IF decel_present THEN 2 ELSE 0
        acc_score == IF accel_present THEN 0 ELSE 1
        acc_count_score == Max(0, Min(1, 2 - accel_count))
        dec_count_score == Min(2, decel_count \div 4)
    IN  baseline_score + var_score + dec_score + acc_score + acc_count_score
            + dec_count_score

\* the integer total_score of calculate_window_risk
WindowScore(baseline, variability, accel_present, decel_present, accel_count, decel_count) ==
    LET baseline_score ==
            IF baseline = 0 THEN 2
            ELSE IF 4 * 110 <= baseline /\ baseline <= 4 * 160 THEN 0
            ELSE IF (4 * 105 <= baseline /\ baseline < 4 * 110)
                    \/ (4 * 160 < baseline /\ baseline <= 4 * 165) THEN 1
            ELSE 2
        var_score ==
            IF IsNone(variability) THEN 2
            ELSE IF variability.num = 0 THEN 2
            ELSE IF variability.num >= 5 * variability.den THEN 0
            ELSE IF 3 * variability.den <= variability.num
                    /\ variability.num < 5 * variability.den THEN 1
            ELSE 2
        dec_score == IF decel_present THEN 2 ELSE 0
        acc_score == IF accel_present THEN 0 ELSE 1
        acc_count_score == Max(0, Min(1, 2 - accel_count))
        dec_count_score == Min(2, decel_count \div 5)
    IN  baseline_score + var_score + dec_score + acc_score + acc_count_score
            + dec_count_score

\* calculate_window_risk returning the raw total_score where the normalised
\* risk belongs (a score of s read as the risk s.0)
calculate_window_risk_raw(baseline, variability, uc_count, accel_present, decel_present, accel_count, decel_count) ==
    10 * WindowScore(baseline, variability, accel_present, decel_present, accel_count,
                     decel_count)

\* calculate_window_risk with a point added for a window of more than 5 contractions
calculate_window_risk_with_uc(baseline, variability, uc_count, accel_present, decel_present, accel_count, decel_count) ==
    Max(0, Min(10, WindowScore(baseline, variability, accel_present, decel_present,
                               accel_count, decel_count)
                   + (IF uc_count > 5 THEN 1 ELSE 0)))

\* calculate_window_risk in tenths: max(0.0, min(1.0, total_score / 10.0))
calculate_window_risk(baseline, variability, uc_count, accel_present, decel_present, accel_count, decel_count) ==
    Max(0, Min(10, WindowScore(baseline, variability, accel_present, decel_present,
                               accel_count, decel_count)))

WindowMinutes == 2
StepMinutes == 1

\* the body of the for loop of calculate_hypoxia_risk for the window at 0-based i
HypoxiaPoint(fhr_series, uc_series, variability_value, time_series, i) ==
    LET window_size == WindowMinutes * 60
        window_fhr == Slice(fhr_series, i, i + window_size)
        window_uc == IF i + window_size <= Len(uc_series)
                     THEN Slice(uc_series, i, i + window_size) ELSE <<>>
        baseline == IF window_fhr # <<>> THEN 2 * NpMedian2(window_fhr) ELSE 0
        acc == detect_accelerations_in_window(window_fhr, baseline, THRESH_ACCEL)
        dec == detect_decelerations_in_window(window_fhr, baseline, THRESH_DECEL)
        uc_count == IF window_uc # <<>> THEN count_contractions(window_uc) ELSE 0
        risk == calculate_window_risk(baseline, variability_value, uc_count, acc.present,
                                      dec.present, acc.count, dec.count)
        time_center == IF i + window_size \div 2 < Len(time_series)
                       THEN time_series[i + window_size \div 2 + 1]
                       ELSE time_series[i + 1]
    IN  [time |-> time_center, risk |-> risk]

\* calculate_hypoxia_risk stopping one window early
calculate_hypoxia_risk_short(fhr_series, uc_series, variability_value, time_series) ==
    LET window_size == WindowMinutes * 60
        step_size == StepMinutes * 60
        stop == Len(fhr_series) - window_size
        count == IF stop <= 0 THEN 0 ELSE (stop + step_size - 1) \div step_size
    IN  [k \in 1..count |->
            HypoxiaPoint(fhr_series, uc_series, variability_value, time_series,
                         (k - 1) * step_size)]

\* calculate_hypoxia_risk: one point per window start in
\* range(0, len(fhr_series) - window_size + 1, step_size)
calculate_hypoxia_risk(fhr_series, uc_series, variability_value, time_series) ==
    LET window_size == WindowMinutes * 60
        step_size == StepMinutes * 60
        stop == Len(fhr_series) - window_size + 1
        count == IF stop <= 0 THEN 0 ELSE (stop + step_size - 1) \div step_size
    IN  [k \in 1..count |->
            HypoxiaPoint(fhr_series, uc_series, variability_value, time_series,
                         (k - 1) * step_size)]

----------------------------------------------------------------------------
(* ctg_analysis/ai_module.py; a predictor risk level is in ten-thousandths  *)

Timeframes == {"15min", "30min", "60min"}

\* n * sum(x*y) - sum(x) * sum(y) over x = 0..n-1: the numerator of the
\* least-squares slope of series against its sample index
SlopeNum(series) ==
    LET n == Len(series)
    IN  n * SumSeq([i \in 1..n |-> (i - 1) * series[i]])
            - SumSeq([i \in 1..n |-> i - 1]) * SumSeq(series)

\* n * sum(x^2) - sum(x)^2 over x = 0..n-1: its denominator
SlopeDen(n) ==
    n * SumSeq([i \in 1..n |-> (i - 1) * (i - 1)])
        - SumSeq([i \in 1..n |-> i - 1]) * SumSeq([i \in 1..n |-> i - 1])

\* calculate_trend: the slope np.polyfit(x, y, 1) fits, as a rational
calculate_trend(series) ==
    IF series = <<>> \/ Len(series) < 2 THEN Rat(0, 1)
    ELSE Rat(SlopeNum(series), SlopeDen(Len(series)))

\* one pass of the for loop of count_peaks
PeakStep(st, value, threshold) ==
    IF value > threshold
    THEN [in_peak |-> TRUE, peaks |-> IF st.in_peak THEN st.peaks ELSE st.peaks + 1]
    ELSE [in_peak |-> FALSE, peaks |-> st.peaks]

\* count_peaks: Scan gives the loop variables after the passes over series[lo..hi]
count_peaks(series, threshold) ==
    LET Scan[lo \in Nat, hi \in Nat, st \in [in_peak : BOOLEAN, peaks : Nat]] ==
            IF lo > hi THEN st
            ELSE IF lo = hi THEN PeakStep(st, series[lo], threshold)
            ELSE Scan[(lo + hi) \div 2 + 1, hi, Scan[lo, (lo + hi) \div 2, st]]
    IN  IF series = <<>> THEN 0
        ELSE Scan[1, Len(series), [in_peak |-> FALSE, peaks |-> 0]].peaks

\* the weights of extract_features with the weight of anemia doubled
FeatureWeightsAnemiaTwo ==
    [diabetes |-> 2, anemia |-> 2, hypertension |-> 2, preeclampsia |-> 3,
     infections |-> 2, multiple |-> 2, placenta |-> 3, term |-> 2]

\* the keys extract_features reads and the factor it multiplies each value by
FeatureWeights ==
    [diabetes |-> 2, anemia |-> 1, hypertension |-> 2, preeclampsia |-> 3,
     infections |-> 2, multiple |-> 2, placenta |-> 3, term |-> 2]

\* risk_factors.get(key, 0) * weight raises TypeError on a None value
FeatureRaises(risk_factors) ==
    \E key \in DOMAIN FeatureWeights :
        key \in DOMAIN risk_factors /\ risk_factors[key] = "None"

\* extract_features. The mean is fhr_sum / n, the (population) standard
\* deviation the root of fhr_dev / n^2 with fhr_dev = n * sum(y^2) - sum(y)^2
extract_features(fhr_series, uc_series, risk_factors) ==
    LET n == Len(fhr_series)
    IN  [n |-> n,
         fhr_sum |-> SumSeq(fhr_series),
         fhr_dev |-> n * SumSeq([i \in 1..n |-> fhr_series[i] * fhr_series[i]])
                        - SumSeq(fhr_series) * SumSeq(fhr_series),
         fhr_trend |-> calculate_trend(fhr_series),
         uc_contractions |-> count_peaks(uc_series, 15),
         \* get(key, 0) * weight is the weight for True, 0 for False or no key
         risk_score |-> SumOver(FeatureWeights,
                            {key \in DOMAIN FeatureWeights :
                                key \in DOMAIN risk_factors /\ risk_factors[key] = "True"})]

\* the accumulated risk_level without the cap on the risk-score term
AccumulatedRiskUncapped(features) ==
    LET n == features.n
        mean_out == n > 0 /\ (features.fhr_sum < 110 * n \/ features.fhr_sum > 160 * n)
        base == IF n = 0 \/ mean_out THEN 300 ELSE 0
        std == IF features.fhr_dev < 25 * n * n \/ n = 0 THEN 300
               ELSE IF features.fhr_dev > 625 * n * n THEN 200 ELSE 0
        t == features.fhr_trend
        trend == IF 2 * t.num < -t.den THEN 200
                 ELSE IF 2 * t.num > t.den THEN 100 ELSE 0
    IN  base + std + trend + 100 * features.risk_score

\* the risk_level predict_timeframe accumulates before the horizon factor, in
\* thousandths
AccumulatedRisk(features) ==
    LET n == features.n
        mean_out == n > 0 /\ (features.fhr_sum < 110 * n \/ features.fhr_sum > 160 * n)
        \* with no samples the mean is 0, below 110
        base == IF n = 0 \/ mean_out THEN 300 ELSE 0
        std == IF features.fhr_dev < 25 * n * n \/ n = 0 THEN 300
               ELSE IF features.fhr_dev > 625 * n * n THEN 200 ELSE 0
        t == features.fhr_trend
        trend == IF 2 * t.num < -t.den THEN 200
                 ELSE IF 2 * t.num > t.den THEN 100 ELSE 0
    IN  base + std + trend + Min(100 * features.risk_score, 300)

\* predict_timeframe choosing the status before the horizon factor is applied
predict_timeframe_bucket_first(features, timeframe) ==
    LET factor == IF timeframe = "15min" THEN 10
                  ELSE IF timeframe = "30min" THEN 12 ELSE 15
        before == 10 * AccumulatedRisk(features)
        risk_level == Min(Max(AccumulatedRisk(features) * factor, 0), 10000)
    IN  IF before < 3000
        THEN [status |-> "normal", risk_level |-> risk_level, confidence |-> 85,
              timeframe |-> timeframe]
        ELSE IF before < 6000
        THEN [status |-> "warning", risk_level |-> risk_level, confidence |-> 70,
              timeframe |-> timeframe]
        ELSE [status |-> "danger", risk_level |-> risk_level, confidence |-> 60,
              timeframe |-> timeframe]

\* predict_timeframe with the adjustments of the 30- and 60-minute horizons
\* exchanged
predict_timeframe_swapped_horizons(features, timeframe) ==
    LET factor == IF timeframe = "15min" THEN 10
                  ELSE IF timeframe = "30min" THEN 15 ELSE 12
        risk_level == Min(Max(AccumulatedRisk(features) * factor, 0), 10000)
    IN  IF risk_level < 3000
        THEN [status |-> "normal", risk_level |-> risk_level, confidence |-> 85,
              timeframe |-> timeframe]
        ELSE IF risk_level < 6000
        THEN [status |-> "warning", risk_level |-> risk_level, confidence |-> 70,
              timeframe |-> timeframe]
        ELSE [status |-> "danger", risk_level |-> risk_level, confidence |-> 60,
              timeframe |-> timeframe]

\* predict_timeframe; risk_level is kept unrounded
predict_timeframe(features, timeframe) ==
    LET factor == IF timeframe = "15min" THEN 10
                  ELSE IF timeframe = "30min" THEN 12 ELSE 15
        risk_level == Min(Max(AccumulatedRisk(features) * factor, 0), 10000)
    IN  IF risk_level < 3000
        THEN [status |-> "normal", risk_level |-> risk_level, confidence |-> 85,
              timeframe |-> timeframe]
        ELSE IF risk_level < 6000
        THEN [status |-> "warning", risk_level |-> risk_level, confidence |-> 70,
              timeframe |-> timeframe]
        ELSE [status |-> "danger", risk_level |-> risk_level, confidence |-> 60,
              timeframe |-> timeframe]

\* predict_outcomes: the three predictions keyed by timeframe, and the features
predict_outcomes(fhr_series, uc_series, risk_factors) ==
    LET features == extract_features(fhr_series, uc_series, risk_factors)
    IN  [by_timeframe |-> [tf \in Timeframes |-> predict_timeframe(features, tf)],
         features |-> features]

----------------------------------------------------------------------------
(* services/analysis_service.py: the forecast synthesizer.  A component    *)
(* result is [kind |-> "none"] (None), [kind |-> "error"] (the placeholder *)
(* of the except branch) or [kind |-> "result", value |-> ...]; a          *)
(* predicted hypoxia risk is a rational in [0,1].                          *)

NoResult == [kind |-> "none"]
ErrorResult == [kind |-> "error"]
Result(v) == [kind |-> "result", value |-> v]

\* Python truth of a result: None is false, each dict here is non-empty
Present(r) == r.kind # "none"

\* r.get('code', 0): the error placeholder has no 'code'
GetCode(r) == IF r.kind = "result" THEN r.value.code ELSE 0

\* ai_result[timeframe].get(...) raises AttributeError on the placeholder, whose
\* values are strings
AiLookupRaises(ai_result) == ai_result.kind = "error"

\* the base status with the danger tests written code > 2
BaseStatusAboveTwo(figo_result, nichd_result, ai_result, timeframe) ==
    IF Present(ai_result) THEN ai_result.value.by_timeframe[timeframe].status
    ELSE IF Present(figo_result) /\ GetCode(figo_result) > 2 THEN "danger"
    ELSE IF Present(nichd_result) /\ GetCode(nichd_result) > 2 THEN "danger"
    ELSE IF Present(figo_result) /\ GetCode(figo_result) = 1 THEN "warning"
    ELSE IF Present(nichd_result) /\ GetCode(nichd_result) = 1 THEN "warning"
    ELSE "normal"

\* the base status with FIGO consulted for both codes before NICHD
BaseStatusFigoFirst(figo_result, nichd_result, ai_result, timeframe) ==
    IF Present(ai_result) THEN ai_result.value.by_timeframe[timeframe].status
    ELSE IF Present(figo_result) /\ GetCode(figo_result) >= 2 THEN "danger"
    ELSE IF Present(figo_result) /\ GetCode(figo_result) = 1 THEN "warning"
    ELSE IF Present(nichd_result) /\ GetCode(nichd_result) >= 2 THEN "danger"
    ELSE IF Present(nichd_result) /\ GetCode(nichd_result) = 1 THEN "warning"
    ELSE "normal"

\* lines 334-346: the base status derived from the component results
BaseStatus(figo_result, nichd_result, ai_result, timeframe) ==
    IF Present(ai_result) THEN ai_result.value.by_timeframe[timeframe].status
    ELSE IF Present(figo_result) /\ GetCode(figo_result) >= 2 THEN "danger"
    ELSE IF Present(nichd_result) /\ GetCode(nichd_result) >= 2 THEN "danger"
    ELSE IF Present(figo_result) /\ GetCode(figo_result) = 1 THEN "warning"
    ELSE IF Present(nichd_result) /\ GetCode(nichd_result) = 1 THEN "warning"
    ELSE "normal"

\* _determine_forecast_status with the middle band returning "warning" whatever
\* the base status
determine_forecast_status_flat(figo_result, nichd_result, ai_result, hypoxia_risk, timeframe) ==
    IF Present(ai_result) /\ AiLookupRaises(ai_result) THEN [raised |-> TRUE]
    ELSE LET base_status == BaseStatus(figo_result, nichd_result, ai_result, timeframe)
         IN  [raised |-> FALSE,
              value |-> IF 10 * hypoxia_risk.num > 7 * hypoxia_risk.den THEN "danger"
                        ELSE IF 10 * hypoxia_risk.num > 4 * hypoxia_risk.den
                             THEN "warning"
                        ELSE base_status]

determine_forecast_status(figo_result, nichd_result, ai_result, hypoxia_risk, timeframe) ==
    IF Present(ai_result) /\ AiLookupRaises(ai_result) THEN [raised |-> TRUE]
    ELSE LET base_status == BaseStatus(figo_result, nichd_result, ai_result, timeframe)
         IN  [raised |-> FALSE,
              value |-> IF 10 * hypoxia_risk.num > 7 * hypoxia_risk.den THEN "danger"
                        ELSE IF 10 * hypoxia_risk.num > 4 * hypoxia_risk.den
                             THEN IF base_status = "normal" THEN "warning"
                                  ELSE base_status
                        ELSE base_status]

\* _calculate_risk_trend of risks given in tenths: the least-squares slope
\* times 10, clamped to [-1, 1]
calculate_risk_trend(risk_values) ==
    IF Len(risk_values) < 2 THEN Rat(0, 1)
    ELSE LET d == SlopeDen(Len(risk_values))
             a == SlopeNum(risk_values)
         IN  IF d = 0 THEN Rat(0, 1) ELSE Rat(Max(-d, Min(d, a)), d)

TimeMultiplier(timeframe) ==
    IF timeframe = "15min" THEN 11 ELSE IF timeframe = "30min" THEN 13 ELSE 16

\* _predict_hypoxia_risk_for_timeframe adding the trend to the current risk
\* instead of scaling the current risk by it
predict_hypoxia_risk_additive(current_risk, hypoxia_risk_history, timeframe) ==
    IF Len(hypoxia_risk_history) < 2 THEN Rat(current_risk, 10)
    ELSE LET n == Len(hypoxia_risk_history)
             recent_risks == [i \in 1..Min(n, 10) |->
                                 hypoxia_risk_history[n - Min(n, 10) + i].risk]
             trend == calculate_risk_trend(recent_risks)
             num == 10 * current_risk * trend.den + 10 * trend.num * TimeMultiplier(timeframe)
             den == 100 * trend.den
         IN  IF num < 0 THEN Rat(0, 1)
             ELSE IF num > den THEN Rat(1, 1)
             ELSE Rat(num, den)

\* _predict_hypoxia_risk_for_timeframe: current_risk in tenths, the result a
\* rational clamped to [0, 1]
predict_hypoxia_risk_for_timeframe(current_risk, hypoxia_risk_history, timeframe) ==
    IF Len(hypoxia_risk_history) < 2 THEN Rat(current_risk, 10)
    ELSE LET n == Len(hypoxia_risk_history)
             recent_risks == [i \in 1..Min(n, 10) |->
                                 hypoxia_risk_history[n - Min(n, 10) + i].risk]
             trend == calculate_risk_trend(recent_risks)
             num == current_risk * (10 * trend.den + trend.num * TimeMultiplier(timeframe))
             den == 100 * trend.den
         IN  IF num < 0 THEN Rat(0, 1)
             ELSE IF num > den THEN Rat(1, 1)
             ELSE Rat(num, den)

\* _format_hypoxia_risk_prediction: int(risk * 100) and the level word
format_hypoxia_risk_prediction(risk) ==
    [percent |-> (100 * risk.num) \div risk.den,
     level |-> IF 10 * risk.num < 3 * risk.den THEN "low"
               ELSE IF 10 * risk.num < 6 * risk.den THEN "moderate" ELSE "high"]

\* r.get('label', 'Unknown')
GetLabel(r) == IF r.kind = "result" THEN r.value.label ELSE "Unknown"

\* _generate_forecast_with_hypoxia_risk; text is the list joined with " | "
generate_forecast_with_hypoxia_risk(figo_result, nichd_result, ai_result, hypoxia_risk, timeframe) ==
    LET current_hypoxia_risk ==
            IF hypoxia_risk # <<>> THEN hypoxia_risk[Len(hypoxia_risk)].risk ELSE 0
        predicted_risk ==
            predict_hypoxia_risk_for_timeframe(current_hypoxia_risk, hypoxia_risk, timeframe)
        status == determine_forecast_status(figo_result, nichd_result, ai_result,
                                            predicted_risk, timeframe)
    IN  IF Present(ai_result) /\ AiLookupRaises(ai_result) THEN [raised |-> TRUE]
        ELSE IF status.raised THEN [raised |-> TRUE]
        ELSE [raised |-> FALSE,
              value |->
                [status |-> status.value,
                 text |->
                    (IF Present(figo_result)
                     THEN <<[source |-> "FIGO/NICE", label |-> GetLabel(figo_result)]>>
                     ELSE <<>>)
                    \o (IF Present(nichd_result)
                        THEN <<[source |-> "NICHD/ACOG", label |-> GetLabel(nichd_result)]>>
                        ELSE <<>>)
                    \o (IF Present(ai_result)
                        THEN <<[source |-> "AI",
                                label |-> ai_result.value.by_timeframe[timeframe].status]>>
                        ELSE <<>>)
                    \o <<[source |-> "hypoxia",
                          label |-> format_hypoxia_risk_prediction(predicted_risk)]>>,
                 hypoxia_risk |-> predicted_risk]]

\* the forecast of the second except branch: no status, hypoxia_risk 0.0
ErrorForecast == [prediction |-> "error", confidence |-> 0, hypoxia_risk |-> Rat(0, 1)]

\* the hypoxia series of the first except branch
ErrorHypoxia == <<[time |-> 0, risk |-> 0, level |-> "error"]>>

determine_status(baseline_fhr) ==
    IF baseline_fhr < 4 * 110 THEN "bradycardia"
    ELSE IF baseline_fhr > 4 * 160 THEN "tachycardia"
    ELSE "normal"

\* lines 69-90: the eight risk factors read from the patient
RiskFactorsOf(p) == [k \in DOMAIN RISK_SCORES |-> p[k]]

\* analyze_ctg_session up to the result dict (section 9), for the files and the
\* patient it reads; raised when a file holds no data
analysis_result_of(fhr_series, uc_series, p, use_figo, use_nichd, use_ai) ==
    IF fhr_series = <<>> \/ uc_series = <<>> THEN [raised |-> TRUE]
    ELSE LET time_series == [i \in 1..Len(fhr_series) |-> i - 1]
             baseline_fhr == calc_baseline(fhr_series)
             variability_value == calculate_variability(fhr_series)
             accelerations == detect_accelerations(fhr_series, baseline_fhr, 37)
             decelerations == detect_decelerations(fhr_series, baseline_fhr)
             risk_factors == RiskFactorsOf(p)
             risk_score == calculate_risk_score(risk_factors)
             \* the one try block of sections 4-7: only the predictor can raise
             failed == use_ai /\ FeatureRaises(risk_factors)
             figo_result ==
                 IF failed THEN ErrorResult
                 ELSE IF use_figo THEN Result(classify_figo(fhr_series, risk_factors, 37))
                 ELSE NoResult
             nichd_result ==
                 IF failed THEN ErrorResult
                 ELSE IF use_nichd THEN Result(classify_nichd(fhr_series, risk_factors, 37))
                 ELSE NoResult
             ai_result ==
                 IF failed THEN ErrorResult
                 ELSE IF use_ai THEN Result(predict_outcomes(fhr_series, uc_series,
                                                             risk_factors))
                 ELSE NoResult
             hypoxia_risk ==
                 IF failed THEN ErrorHypoxia
                 ELSE calculate_hypoxia_risk(fhr_series, uc_series, variability_value,
                                             time_series)
             forecast == [tf \in Timeframes |->
                             generate_forecast_with_hypoxia_risk(figo_result, nichd_result,
                                 ai_result, hypoxia_risk, tf)]
             forecast_failed == \E tf \in Timeframes : forecast[tf].raised
         IN  [raised |-> FALSE,
              fhr_base |-> baseline_fhr,
              variability |-> variability_value,
              status |-> determine_status(baseline_fhr),
              accelerations |-> accelerations,
              decelerations |-> decelerations,
              figo_result |-> figo_result,
              nichd_result |-> nichd_result,
              ai_result |-> ai_result,
              forecasts |-> [tf \in Timeframes |->
                                IF forecast_failed THEN ErrorForecast
                                ELSE forecast[tf].value],
              hypoxia_risk |-> hypoxia_risk,
              risk_score |-> risk_score]

----------------------------------------------------------------------------
(* services/database_service.py *)

\* json.dumps of a result: the Text column holds the document of the value
JsonDumps(v) == [json |-> v]

\* a CTGSession row before any analysis
EmptySessionRow ==
    [baseline_fhr |-> NoneValue, variability |-> NoneValue,
     accelerations_count |-> 0, decelerations_count |-> 0, status |-> "None",
     figo_result |-> NoneValue, nichd_result |-> NoneValue, ai_result |-> NoneValue,
     forecasts |-> [tf \in Timeframes |-> NoneValue],
     hypoxia_risk |-> NoneValue]

\* update_session_analysis: a column of a falsy result keeps its old value
update_session_analysis(row, analysis_data) ==
    [baseline_fhr |-> [value |-> analysis_data.fhr_base],
     variability |-> [value |-> analysis_data.variability],
     accelerations_count |-> analysis_data.accelerations,
     decelerations_count |-> analysis_data.decelerations,
     status |-> analysis_data.status,
     figo_result |-> IF Present(analysis_data.figo_result)
                     THEN JsonDumps(analysis_data.figo_result) ELSE row.figo_result,
     nichd_result |-> IF Present(analysis_data.nichd_result)
                      THEN JsonDumps(analysis_data.nichd_result) ELSE row.nichd_result,
     ai_result |-> IF Present(analysis_data.ai_result)
                   THEN JsonDumps(analysis_data.ai_result) ELSE row.ai_result,
     forecasts |-> [tf \in Timeframes |-> JsonDumps(analysis_data.forecasts[tf])],
     hypoxia_risk |-> IF analysis_data.hypoxia_risk # <<>>
                      THEN JsonDumps(analysis_data.hypoxia_risk) ELSE row.hypoxia_risk]

----------------------------------------------------------------------------
(* Input series: a series is a concatenation of segments <<level, amp, len>>, *)
(* len samples alternating level, level + amp, level, ...                     *)

RECURSIVE Expand(_)
Expand(segs) ==
    IF segs = <<>> THEN <<>>
    ELSE LET g == Head(segs)
         IN  [i \in 1..g[3] |-> IF i % 2 = 1 THEN g[1] ELSE g[1] + g[2]]
             \o Expand(Tail(segs))

MaxSegs == 3

SegSeqs(types) == UNION {[1..n -> types] : n \in 0..MaxSegs}

\* flat runs around the detection thresholds of a 140 bpm baseline, and one outlier
SignalSegs ==
    ({125, 140, 150, 155} \X {0} \X {1, 14, 15}) \cup {<<210, 0, 1>>}

SignalSeries == {Expand(segs) : segs \in SegSeqs(SignalSegs)}

\* baselines handed to the detectors, in quarter bpm: none, 140 and 140.5
SignalBaselines == {0, 560, 562}

NotCalled == [fn |-> "none"]

\* services/test_data_generator.py; times are in twentieths of a second. The
\* generator's random draws (the values of the points and the phases and
\* counts of the patterns they start) are left out: no time reads them.

sample_rate == 4

\* self.dt = 1.0 / sample_rate
dt == 20 \div sample_rate

\* TestDataGenerator.__init__, run once when the module is imported
TestDataGenerator == [time_offset |-> 0]

\* reset
reset(self) == [self EXCEPT !.time_offset = 0]

\* the times of the points either generate method builds from self.time_offset
PointsFrom(self, duration) ==
    LET num_points == (duration * sample_rate) \div 20
    IN  [i \in 1..num_points |-> [time |-> self.time_offset + (i - 1) * dt]]

\* generate_fhr_data: the points, and the generator with its offset advanced
generate_fhr_data(self, duration) ==
    [points |-> PointsFrom(self, duration),
     self |-> [self EXCEPT !.time_offset = self.time_offset + duration]]

\* generate_uc_data: the points; the generator is left as it is
generate_uc_data(self, duration) ==
    [points |-> PointsFrom(self, duration), self |-> self]

\* lines 57-58 of generate_test_data and 95-96 of analyze_test_data: the FHR
\* call, then the UC call on the generator the FHR call left
GenerateBoth(self, duration) ==
    LET fhr == generate_fhr_data(self, duration)
        uc == generate_uc_data(fhr.self, duration)
    IN  [fhr_data |-> fhr.points, uc_data |-> uc.points, self |-> uc.self]

SvcIdle ==
    /\ patient = <<>>
    /\ files = <<>>
    /\ db_session = <<>>
    /\ analysis_result = <<>>
    /\ test_data_generator = TestDataGenerator

----------------------------------------------------------------------------
(* SpecSignal: the signal primitives applied to bounded inputs *)

InitSignal ==
    /\ args \in [fhr_series : SignalSeries, baseline : SignalBaselines, ga_weeks : {31, 37}]
    /\ ret = NotCalled
    /\ SvcIdle

CallCalcBaseline ==
    /\ ret.fn = "none"
    /\ ret' = [fn |-> "calc_baseline", value |-> calc_baseline(args.fhr_series)]
    /\ UNCHANGED <<args, svcVars>>

CallDetectAccelerations ==
    /\ ret.fn = "none"
    /\ ret' = [fn |-> "detect_accelerations",
               value |-> detect_accelerations(args.fhr_series, args.baseline, args.ga_weeks)]
    /\ UNCHANGED <<args, svcVars>>

CallDetectDecelerations ==
    /\ ret.fn = "none"
    /\ ret' = [fn |-> "detect_decelerations",
               value |-> detect_decelerations(args.fhr_series, args.baseline)]
    /\ UNCHANGED <<args, svcVars>>

NextSignal ==
    \/ CallCalcBaseline
    \/ CallDetectAccelerations
    \/ CallDetectDecelerations

SpecSignal == InitSignal /\ [][NextSignal]_vars

\* the number of maximal runs of samples at or above limit (quarter bpm) that are
\* at least MinRunLength long: a run is named by its first index
LongRunsAbove(s, limit) ==
    Cardinality({i \in 1..Len(s) :
        /\ (i = 1 \/ 4 * s[i - 1] < limit)
        /\ i + MinRunLength - 1 <= Len(s)
        /\ \A k \in i..(i + MinRunLength - 1) : 4 * s[k] >= limit})

AccelLimit(baseline, ga_weeks) == baseline + 4 * (IF ga_weeks < 32 THEN 10 ELSE 15)

\* C7: for a non-zero baseline detect_accelerations returns the number of maximal
\* runs of samples >= baseline + T (T = 10 below 32 weeks, else 15) of length >= 15,
\* a run open at the end of the series included; a series that is one run of 14
\* samples gives 0 and one that is a run of exactly 15 gives 1.
C7_AccelerationRuns ==
    (ret.fn = "detect_accelerations" /\ args.baseline # 0) =>
        LET s == args.fhr_series
            limit == AccelLimit(args.baseline, args.ga_weeks)
            allAbove == \A k \in 1..Len(s) : 4 * s[k] >= limit
        IN  /\ ret.value = LongRunsAbove(s, limit)
            /\ (allAbove /\ Len(s) = 14) => ret.value = 0
            /\ (allAbove /\ Len(s) = 15) => ret.value = 1

\* two qualifying runs were counted, the second one open at the end of the series
C7_Witness ==
    /\ ret.fn = "detect_accelerations"
    /\ args.baseline # 0
    /\ ret.value = 2
    /\ 4 * args.fhr_series[Len(args.fhr_series)] >= AccelLimit(args.baseline, args.ga_weeks)

\* the k-th smallest element of s (1-based), by rank instead of by sorting
KthSmallest(s, k) ==
    CHOOSE v \in Range(s) :
        /\ Cardinality({i \in 1..Len(s) : s[i] < v}) < k
        /\ Cardinality({i \in 1..Len(s) : s[i] <= v}) >= k

\* twice the median of a non-empty list, by rank
RankMedian2(s) ==
    LET n == Len(s)
    IN  IF n % 2 = 1 THEN 2 * KthSmallest(s, (n + 1) \div 2)
        ELSE KthSmallest(s, n \div 2) + KthSmallest(s, n \div 2 + 1)

InRange(s) == SelectSeq(s, LAMBDA x : 50 <= x /\ x <= 200)

\* the baseline as the claim words it, in quarter bpm; nan marks the median of no
\* samples, which is not a number (np.median([]) is nan)
ClaimedBaseline(s) ==
    IF s = <<>> THEN [nan |-> FALSE, value |-> 0]
    ELSE LET rest == InRange(s)
         IN  IF Len(rest) >= 10
             THEN [nan |-> FALSE,
                   value |-> RankMedian2([i \in 1..(Len(rest) - 9) |->
                                 RankMedian2(SubSeq(rest, i, i + 9))])]
             ELSE IF rest = <<>> THEN [nan |-> TRUE, value |-> 0]
             ELSE [nan |-> FALSE, value |-> 2 * RankMedian2(rest)]

\* C9 as stated: 0.0 for an empty series only, otherwise the median of the
\* length-10 window medians or the plain median of the samples left in [50,200]
C9_AsStated ==
    ret.fn = "calc_baseline" =>
        /\ ~ClaimedBaseline(args.fhr_series).nan
        /\ ret.value = ClaimedBaseline(args.fhr_series).value

\* C9 amended: as stated, and 0.0 also when no sample lies in [50,200]; a constant
\* in-range series yields its value
C9_Baseline ==
    ret.fn = "calc_baseline" =>
        LET s == args.fhr_series
        IN  /\ InRange(s) = <<>> => ret.value = 0
            /\ InRange(s) # <<>> =>
                   /\ ~ClaimedBaseline(s).nan
                   /\ ret.value = ClaimedBaseline(s).value
            /\ \A v \in 50..200 :
                   (s # <<>> /\ \A k \in 1..Len(s) : s[k] = v) => ret.value = 4 * v

\* a baseline smoothed over windows that differs from the plain median
C9_Witness ==
    /\ ret.fn = "calc_baseline"
    /\ Len(InRange(args.fhr_series)) >= 10
    /\ Len(InRange(args.fhr_series)) < Len(args.fhr_series)
    /\ ret.value # 2 * RankMedian2(InRange(args.fhr_series))

----------------------------------------------------------------------------
(* SpecSymmetry: both detectors applied as the classifiers call them, the  *)
(* acceleration detector on the recording reflected about the baseline     *)

\* baselines of 137.5, 140 and 140.5 bpm, in quarter bpm
SymmetryBaselines == {550, 560, 562}

\* s with each sample x replaced by 2b - x, for a baseline b (quarter bpm) that
\* is a multiple of half a bpm
Reflect(s, baseline) == [i \in 1..Len(s) |-> baseline \div 2 - s[i]]

InitSymmetry ==
    /\ args \in [fhr_series : SignalSeries, baseline : SymmetryBaselines, ga_weeks : {31, 37}]
    /\ ret = NotCalled
    /\ SvcIdle

CallDetectAccelerationsReflected ==
    /\ ret.fn = "none"
    /\ ret' = [fn |-> "detect_accelerations_reflected",
               value |-> detect_accelerations(Reflect(args.fhr_series, args.baseline),
                                              args.baseline, args.ga_weeks)]
    /\ UNCHANGED <<args, svcVars>>

NextSymmetry == CallDetectDecelerations \/ CallDetectAccelerationsReflected

SpecSymmetry == InitSymmetry /\ [][NextSymmetry]_vars

\* the two counts C18 compares agree for the call that was made
CountsAgree ==
    /\ ret.fn = "detect_decelerations" =>
           ret.value = detect_accelerations(Reflect(args.fhr_series, args.baseline),
                                            args.baseline, args.ga_weeks)
    /\ ret.fn = "detect_accelerations_reflected" =>
           ret.value = detect_decelerations(args.fhr_series, args.baseline)

\* C18 as stated: for every series, non-zero baseline and gestational age the
\* decelerations detected in s are as many as the accelerations detected in s
\* reflected about the baseline.
C18_AsStated == CountsAgree

\* C18 amended: the counts agree for a gestational age of 32 weeks or more,
\* when both detectors use the threshold 15.
C18_SymmetricFromWeek32 == args.ga_weeks >= 32 => CountsAgree

\* at term a recording with a deceleration was reflected into one acceleration
C18_Witness ==
    /\ ret.fn = "detect_accelerations_reflected"
    /\ args.ga_weeks = 37
    /\ detect_decelerations(args.fhr_series, args.baseline) = 1
    /\ ret.value = 1

----------------------------------------------------------------------------
(* SpecVar: classify_variability applied to bounded rationals *)

MaxVarNum == 260

VarValues == {Rat(n, d) : n \in 0..MaxVarNum, d \in {1, 3, 10}}

InitVar ==
    /\ args \in [variability : VarValues]
    /\ ret = NotCalled
    /\ SvcIdle

CallClassifyVariability ==
    /\ ret.fn = "none"
    /\ ret' = [fn |-> "classify_variability", value |-> classify_variability(args.variability)]
    /\ UNCHANGED <<args, svcVars>>

NextVar == CallClassifyVariability

SpecVar == InitVar /\ [][NextVar]_vars

\* C10: classify_variability gives exactly the class of the value's interval:
\* 0 absent, (0,5) minimal, [5,25] moderate, above 25 marked; 4.9 is minimal,
\* 5 and 25 are moderate, 25.1 is marked.
C10_VariabilityClasses ==
    ret.fn = "classify_variability" =>
        LET n == args.variability.num
            d == args.variability.den
        IN  /\ (ret.value = "absent") <=> (n = 0)
            /\ (ret.value = "minimal") <=> (0 < n /\ n < 5 * d)
            /\ (ret.value = "moderate") <=> (5 * d <= n /\ n <= 25 * d)
            /\ (ret.value = "marked") <=> (n > 25 * d)
            /\ args.variability = Rat(49, 10) => ret.value = "minimal"
            /\ args.variability \in {Rat(5, 1), Rat(25, 1)} => ret.value = "moderate"
            /\ args.variability = Rat(251, 10) => ret.value = "marked"

\* the value 5 exactly, met as 15/3, was classified
C10_Witness ==
    /\ ret.fn = "classify_variability"
    /\ args.variability = Rat(15, 3)
    /\ ret.value = "moderate"

----------------------------------------------------------------------------
(* SpecScore: calculate_risk_score applied to every dict over the known    *)
(* keys and one unknown key, and to the orderings of small dicts           *)

MaxItems == 3

ScoreKeys == DOMAIN RISK_SCORES \cup {"smoking"}

ScoreDicts == UNION {[D -> {"True", "False"}] : D \in SUBSET ScoreKeys}

ItemKeys == {"anemia", "preeclampsia", "term", "smoking"}

\* the items of a dict: pairs of a key and a value, no key twice
ScoreItems ==
    {items \in UNION {[1..n -> ItemKeys \X {"True", "False"}] : n \in 0..MaxItems} :
        \A i, j \in DOMAIN items : items[i][1] = items[j][1] => i = j}

\* the dict with the given items
DictOf(items) ==
    [k \in {items[i][1] : i \in DOMAIN items} |->
        items[CHOOSE i \in DOMAIN items : items[i][1] = k][2]]

InitScore ==
    /\ args \in [fn : {"dict"}, risk_factors : ScoreDicts]
               \cup [fn : {"items"}, items : ScoreItems]
    /\ ret = NotCalled
    /\ SvcIdle

CallCalculateRiskScore ==
    /\ ret.fn = "none"
    /\ args.fn = "dict"
    /\ ret' = [fn |-> "calculate_risk_score",
               value |-> calculate_risk_score(args.risk_factors)]
    /\ UNCHANGED <<args, svcVars>>

CallCalculateRiskScoreItems ==
    /\ ret.fn = "none"
    /\ args.fn = "items"
    /\ ret' = [fn |-> "calculate_risk_score_items",
               value |-> calculate_risk_score_items(args.items)]
    /\ UNCHANGED <<args, svcVars>>

\* extract_features on the dict, with no recording
CallExtractFeatures ==
    /\ ret.fn = "none"
    /\ args.fn = "dict"
    /\ ret' = [fn |-> "extract_features",
               value |-> extract_features(<<>>, <<>>, args.risk_factors)]
    /\ UNCHANGED <<args, svcVars>>

NextScore == CallCalculateRiskScore \/ CallCalculateRiskScoreItems \/ CallExtractFeatures

SpecScore == InitScore /\ [][NextScore]_vars

\* 1 if the dict holds the key with a true value, else 0
Has(risk_factors, key) ==
    IF key \in DOMAIN risk_factors /\ risk_factors[key] = "True" THEN 1 ELSE 0

\* the weighted sum as C16 states it
ClaimedScore(f) ==
    2 * Has(f, "diabetes") + 1 * Has(f, "anemia") + 2 * Has(f, "hypertension")
    + 3 * Has(f, "preeclampsia") + 2 * Has(f, "infections") + 2 * Has(f, "multiple")
    + 3 * Has(f, "placenta") + 2 * Has(f, "term")

\* C16: calculate_risk_score is the sum of the static weights of the known
\* factors that are present; absent factors and unknown keys add 0, the score
\* lies in 0..17, and the order of the keys does not change it.
C16_WeightedSum ==
    /\ ret.fn = "calculate_risk_score" =>
           /\ ret.value = ClaimedScore(args.risk_factors)
           /\ ret.value \in 0..17
    /\ ret.fn = "calculate_risk_score_items" =>
           /\ ret.value = ClaimedScore(DictOf(args.items))
           /\ ret.value = calculate_risk_score(DictOf(args.items))

\* every known factor and the unknown key present: the top score
C16_Witness ==
    /\ ret.fn = "calculate_risk_score"
    /\ DOMAIN args.risk_factors = ScoreKeys
    /\ \A k \in ScoreKeys : args.risk_factors[k] = "True"
    /\ ret.value = 17

\* the unknown key first, then two known factors, one of them absent
C16_WitnessOrder ==
    /\ ret.fn = "calculate_risk_score_items"
    /\ args.items = <<<<"smoking", "True">>, <<"term", "False">>, <<"preeclampsia", "True">>>>
    /\ ret.value = 3

\* C30: for every dict of boolean values over the known keys, keys missing or
\* not, the risk score extract_features computes for the predictor equals
\* calculate_risk_score of the same dict.
C30_SameScore ==
    ret.fn = "extract_features" =>
        ret.value.risk_score = calculate_risk_score(args.risk_factors)

\* a dict with a factor present, one absent and keys missing
C30_Witness ==
    /\ ret.fn = "extract_features"
    /\ DOMAIN args.risk_factors = {"anemia", "placenta", "term"}
    /\ args.risk_factors["anemia"] = "True"
    /\ args.risk_factors["placenta"] = "True"
    /\ args.risk_factors["term"] = "False"
    /\ ret.value.risk_score = 4

----------------------------------------------------------------------------
(* SpecGenerator: the demo routes of api/test_data.py on the shared         *)
(* generator; each handler runs to its return without awaiting              *)

\* the routes are not called once the offset has passed 2 seconds
MaxOffset == 40

\* durations of 0, 0.2, 0.25 and 1 second
Durations == {0, 4, 5, 20}

\* analyze_test_data asks for 5 minutes
AnalyzeDuration == 6000

InitGenerator ==
    /\ args = <<>>
    /\ ret = NotCalled
    /\ SvcIdle

\* POST /start
StartTestData ==
    /\ test_data_generator' = reset(test_data_generator)
    /\ args' = <<>>
    /\ ret' = [fn |-> "start_test_data"]
    /\ UNCHANGED <<patient, files, db_session, analysis_result>>

\* GET /generate?duration=...
GenerateTestData(duration) ==
    /\ test_data_generator.time_offset <= MaxOffset
    /\ LET out == GenerateBoth(test_data_generator, duration)
       IN  /\ test_data_generator' = out.self
           /\ ret' = [fn |-> "generate_test_data",
                      fhr_data |-> out.fhr_data, uc_data |-> out.uc_data]
    /\ args' = [duration |-> duration]
    /\ UNCHANGED <<patient, files, db_session, analysis_result>>

\* GET /analyze
AnalyzeTestData ==
    /\ test_data_generator.time_offset <= MaxOffset
    /\ LET out == GenerateBoth(test_data_generator, AnalyzeDuration)
       IN  /\ test_data_generator' = out.self
           /\ ret' = [fn |-> "analyze_test_data",
                      fhr_data |-> out.fhr_data, uc_data |-> out.uc_data]
    /\ args' = <<>>
    /\ UNCHANGED <<patient, files, db_session, analysis_result>>

NextGenerator ==
    \/ StartTestData
    \/ \E duration \in Durations : GenerateTestData(duration)
    \/ AnalyzeTestData

SpecGenerator == InitGenerator /\ [][NextGenerator]_vars

\* C29: the FHR series and the UC series of one generate or analyze response
\* are aligned, whatever calls came before: they have the same number of
\* points and the i-th points carry the same time.
C29_SeriesAligned ==
    ret.fn \in {"generate_test_data", "analyze_test_data"} =>
        /\ Len(ret.fhr_data) = Len(ret.uc_data)
        /\ \A i \in 1..Len(ret.fhr_data) : ret.fhr_data[i].time = ret.uc_data[i].time

----------------------------------------------------------------------------
(* SpecAdjust: the two risk adjustments applied to every label and score *)

MaxRiskScore == 18

AdjustInputs ==
    [standard : {"figo"}, base_label : DOMAIN FigoCodeMap, risk_score : -1..MaxRiskScore]
    \cup [standard : {"nichd"}, base_label : DOMAIN NichdCodeMap,
          risk_score : -1..MaxRiskScore]

InitAdjust ==
    /\ args \in AdjustInputs
    /\ ret = NotCalled
    /\ SvcIdle

CallAdjustFigo ==
    /\ ret.fn = "none"
    /\ args.standard = "figo"
    /\ ret' = [fn |-> "adjust",
               value |-> adjust_figo_classification(args.base_label, args.risk_score)]
    /\ UNCHANGED <<args, svcVars>>

CallAdjustNichd ==
    /\ ret.fn = "none"
    /\ args.standard = "nichd"
    /\ ret' = [fn |-> "adjust",
               value |-> adjust_nichd_classification(args.base_label, args.risk_score)]
    /\ UNCHANGED <<args, svcVars>>

NextAdjust == CallAdjustFigo \/ CallAdjustNichd

SpecAdjust == InitAdjust /\ [][NextAdjust]_vars

\* the severity ladder of a standard, mildest first
Ladder(standard) ==
    IF standard = "figo" THEN <<"Normal", "Suspicious", "Pathological">>
    ELSE <<"Category I", "Category II", "Category III">>

Rung(standard, label) == CHOOSE c \in 0..2 : Ladder(standard)[c + 1] = label

\* C3: with risk_score >= 4 the adjusted code is min(base code + 1, 2) and the
\* adjusted label is the label of that code; below 4 the label is unchanged;
\* adjustment_applied is true exactly when the label changed.
C3_OneStepEscalation ==
    ret.fn = "adjust" =>
        LET base == Rung(args.standard, args.base_label)
            r == ret.value
        IN  /\ r.original_label = args.base_label
            /\ args.risk_score >= 4 =>
                   /\ r.code = Min(base + 1, 2)
                   /\ r.adjusted_label = Ladder(args.standard)[Min(base + 1, 2) + 1]
            /\ args.risk_score < 4 =>
                   /\ r.adjusted_label = args.base_label
                   /\ r.code = base
            /\ r.adjustment_applied <=> (r.adjusted_label # args.base_label)

\* a score of exactly 4 moved Normal to Suspicious
C3_Witness ==
    /\ ret.fn = "adjust"
    /\ args.risk_score = 4
    /\ args.base_label = "Normal"
    /\ ret.value.adjusted_label = "Suspicious"
    /\ ret.value.adjustment_applied

----------------------------------------------------------------------------
(* SpecClassify: both classifiers applied to bounded recordings *)

RiskKeys == DOMAIN RISK_SCORES

\* the dict analyze_ctg_session builds: all eight keys, the given ones present
RiskDict(present) == [k \in RiskKeys |-> IF k \in present THEN "True" ELSE "False"]

\* scores 0, 1, 3, 4 and 17
ClassifyRiskSets ==
    {{}, {"anemia"}, {"preeclampsia"}, {"diabetes", "hypertension"}, RiskKeys}

\* a normal stretch, a flat one, acceleration runs of 15 and 14 samples, a
\* deceleration run, tachycardia, bradycardia with low variability, and a
\* stretch of marked variability
ClassifySegs ==
    {<<140, 10, 40>>, <<145, 0, 40>>, <<165, 10, 15>>, <<165, 10, 14>>,
     <<115, 10, 15>>, <<170, 10, 40>>, <<90, 4, 40>>, <<130, 30, 40>>}

ClassifySeries == {Expand(segs) : segs \in SegSeqs(ClassifySegs)}

InitClassify ==
    /\ args \in [fhr_series : ClassifySeries,
                 risk_factors : {RiskDict(p) : p \in ClassifyRiskSets},
                 ga_weeks : {31, 37}]
    /\ ret = NotCalled
    /\ SvcIdle

CallClassifyFigo ==
    /\ ret.fn = "none"
    /\ ret' = [fn |-> "classify_figo",
               value |-> classify_figo(args.fhr_series, args.risk_factors, args.ga_weeks)]
    /\ UNCHANGED <<args, svcVars>>

CallClassifyNichd ==
    /\ ret.fn = "none"
    /\ ret' = [fn |-> "classify_nichd",
               value |-> classify_nichd(args.fhr_series, args.risk_factors, args.ga_weeks)]
    /\ UNCHANGED <<args, svcVars>>

NextClassify == CallClassifyFigo \/ CallClassifyNichd

SpecClassify == InitClassify /\ [][NextClassify]_vars

IsClassification == ret.fn \in {"classify_figo", "classify_nichd"}

\* C2: the final code of either classifier is never below its base code.
C2_EscalationOnly ==
    IsClassification =>
        ret.value.final_classification.code >= ret.value.base_classification.code

\* a Pathological / Category III recording of a patient with a high risk score
C2_Witness ==
    /\ IsClassification
    /\ args.fhr_series # <<>>
    /\ ret.value.base_classification.code = 2
    /\ ret.value.risk_adjustment.risk_score >= 4

\* the metrics C4 is about, as the classifier computed them
ReassuringMetrics(r) ==
    /\ 4 * 110 <= r.baseline /\ r.baseline <= 4 * 160
    /\ 5 * r.variability.den <= r.variability.num
    /\ r.variability.num <= 25 * r.variability.den
    /\ r.accelerations >= 2
    /\ (IF ret.fn = "classify_figo" THEN r.decelerations ELSE r.decelerations.count) = 0

MildestLabel == IF ret.fn = "classify_figo" THEN "Normal" ELSE "Category I"

\* C4 as stated: with reassuring metrics the classifier returns Normal / Category I
\* with code 0 and applies no risk escalation, whatever the risk factors.
C4_AsStated ==
    (IsClassification /\ ReassuringMetrics(ret.value)) =>
        /\ ret.value.label = MildestLabel
        /\ ret.value.code = 0
        /\ ~ret.value.risk_adjustment.applied

\* C4 amended: with reassuring metrics the base classification is Normal /
\* Category I with code 0; with a risk score below 4 that is also the final
\* classification and no escalation is applied; with a score of 4 or more the
\* final classification is one step up (code 1) and the escalation is applied.
C4_ReassuringIsNormal ==
    (IsClassification /\ ReassuringMetrics(ret.value)) =>
        /\ ret.value.base_classification = [label |-> MildestLabel, code |-> 0]
        /\ ret.value.risk_adjustment.risk_score < 4 =>
               /\ ret.value.label = MildestLabel
               /\ ret.value.code = 0
               /\ ret.value.final_classification = [label |-> MildestLabel, code |-> 0]
               /\ ~ret.value.risk_adjustment.applied
        /\ ret.value.risk_adjustment.risk_score >= 4 =>
               /\ ret.value.code = 1
               /\ ret.value.risk_adjustment.applied

\* NICHD classified a recording with reassuring metrics of a low-risk patient
C4_Witness ==
    /\ ret.fn = "classify_nichd"
    /\ ReassuringMetrics(ret.value)
    /\ ret.value.risk_adjustment.risk_score < 4
    /\ ret.value.label = "Category I"

\* the result of the other standard on the arguments of the call made
FigoResult ==
    IF ret.fn = "classify_figo" THEN ret.value
    ELSE classify_figo(args.fhr_series, args.risk_factors, args.ga_weeks)

NichdResult ==
    IF ret.fn = "classify_nichd" THEN ret.value
    ELSE classify_nichd(args.fhr_series, args.risk_factors, args.ga_weeks)

\* C26: on the same FHR series, risk factors and gestational age FIGO is never
\* less severe than NICHD: its base code and its adjusted code are at least
\* those of NICHD, FIGO Normal comes only with NICHD Category I, and NICHD
\* Category III only with FIGO Pathological
C26_FigoAtLeastNichd ==
    IsClassification =>
        /\ FigoResult.base_classification.code >= NichdResult.base_classification.code
        /\ FigoResult.code >= NichdResult.code
        /\ FigoResult.base_classification.label = "Normal"
              => NichdResult.base_classification.label = "Category I"
        /\ NichdResult.base_classification.label = "Category III"
              => FigoResult.base_classification.label = "Pathological"

\* NICHD was asked about a recording it puts in Category III
C26_Witness ==
    /\ ret.fn = "classify_nichd"
    /\ ret.value.base_classification.label = "Category III"
    /\ FigoResult.base_classification.label = "Pathological"

\* FIGO was asked about a recording it finds Normal, with a risk score that
\* raises both standards by one step
C26_WitnessAdjusted ==
    /\ ret.fn = "classify_figo"
    /\ ret.value.base_classification.label = "Normal"
    /\ ret.value.code = 1
    /\ NichdResult.code = 1

----------------------------------------------------------------------------
(* SpecCriteria: the criterion evaluations and the base classifications of *)
(* both standards applied to bounded metrics                               *)

MaxBaselineBpm == 185

Evaluations == {"reassuring", "non-reassuring", "abnormal"}
VariabilityClasses == {"absent", "minimal", "moderate", "marked"}

\* baselines in quarter bpm from 0 to MaxBaselineBpm; every list of four
\* evaluations; metrics around the limits of the NICHD categories
CriteriaInputs ==
    [fn : {"evaluate_baseline"}, baseline : 0..(4 * MaxBaselineBpm)]
    \cup [fn : {"figo_base_classification"}, evaluations : [1..4 -> Evaluations]]
    \cup [fn : {"classify_nichd_category"},
          baseline : {0, 436, 439, 440, 560, 640, 641, 800},
          var_class : VariabilityClasses,
          accels : {0, 2},
          decels_count : 0..7]

InitCriteria ==
    /\ args \in CriteriaInputs
    /\ ret = NotCalled
    /\ SvcIdle

CallEvaluateBaseline ==
    /\ ret.fn = "none"
    /\ args.fn = "evaluate_baseline"
    /\ ret' = [fn |-> "evaluate_baseline", value |-> evaluate_baseline(args.baseline)]
    /\ UNCHANGED <<args, svcVars>>

CallFigoBaseClassification ==
    /\ ret.fn = "none"
    /\ args.fn = "figo_base_classification"
    /\ ret' = [fn |-> "figo_base_classification",
               value |-> figo_base_classification(args.evaluations)]
    /\ UNCHANGED <<args, svcVars>>

CallClassifyNichdCategory ==
    /\ ret.fn = "none"
    /\ args.fn = "classify_nichd_category"
    /\ ret' = [fn |-> "classify_nichd_category",
               dec_pattern |-> deceleration_pattern(args.decels_count),
               value |-> classify_nichd_category(args.baseline, args.var_class,
                             args.accels, args.decels_count,
                             deceleration_pattern(args.decels_count))]
    /\ UNCHANGED <<args, svcVars>>

NextCriteria ==
    \/ CallEvaluateBaseline
    \/ CallFigoBaseClassification
    \/ CallClassifyNichdCategory

SpecCriteria == InitCriteria /\ [][NextCriteria]_vars

AllReassuring == \A i \in 1..4 : args.evaluations[i] = "reassuring"
AnyAbnormal == \E i \in 1..4 : args.evaluations[i] = "abnormal"

\* C12: the FIGO base label is Normal (0) iff all four evaluations are
\* reassuring, Pathological (2) iff at least one is abnormal, and Suspicious (1)
\* in every other case.
C12_FigoBaseLabel ==
    ret.fn = "figo_base_classification" =>
        /\ ret.value = [label |-> "Normal", code |-> 0] <=> AllReassuring
        /\ ret.value = [label |-> "Pathological", code |-> 2] <=> AnyAbnormal
        /\ ret.value = [label |-> "Suspicious", code |-> 1]
               <=> (~AllReassuring /\ ~AnyAbnormal)

\* only the deceleration criterion is abnormal
C12_Witness ==
    /\ ret.fn = "figo_base_classification"
    /\ args.evaluations = <<"reassuring", "reassuring", "reassuring", "abnormal">>
    /\ ret.value.label = "Pathological"

\* the pattern C13 derives from the count
ClaimedPattern(n) ==
    CASE n = 0 -> "none"
      [] n \in 1..2 -> "early"
      [] n \in 3..5 -> "variable"
      [] n > 5 -> "late"

ClaimedCategoryI ==
    /\ 4 * 110 <= args.baseline /\ args.baseline <= 4 * 160
    /\ args.var_class = "moderate"
    /\ ClaimedPattern(args.decels_count) \in {"none", "early"}

ClaimedCategoryIII ==
    /\ ~ClaimedCategoryI
    /\ args.var_class = "absent"
    /\ \/ ClaimedPattern(args.decels_count) \in {"late", "variable"}
       \/ args.baseline < 4 * 110
       \/ args.decels_count > 3

ClaimedBaselineEvaluation(b) ==
    IF 4 * 110 <= b /\ b <= 4 * 160 THEN "reassuring"
    ELSE IF b < 4 * 100 \/ b > 4 * 180 THEN "abnormal"
    ELSE "non-reassuring"

\* C17: evaluate_baseline gives every baseline one evaluation: reassuring
\* for 110-160, non-reassuring for 100-109 or 161-180, abnormal for every
\* other value, which its docstring gives as below 100 or above 180.
C17_AsStated ==
    ret.fn = "evaluate_baseline" => ret.value = ClaimedBaselineEvaluation(args.baseline)

\* the order reassuring < non-reassuring < abnormal
EvaluationRank(evaluation) ==
    IF evaluation = "reassuring" THEN 0
    ELSE IF evaluation = "non-reassuring" THEN 1
    ELSE 2

\* C27: the baseline evaluation is monotone in the distance from the band
\* 110-160: a baseline at or above 160 is graded no worse than any baseline
\* above it, and a baseline at or below 110 no worse than any baseline below
\* it, quarter-bpm values between whole numbers included.
C27_MonotoneInDistance ==
    ret.fn = "evaluate_baseline" =>
        \A b2 \in 0..(4 * MaxBaselineBpm) :
            (\/ 4 * 160 <= args.baseline /\ args.baseline <= b2
             \/ b2 <= args.baseline /\ args.baseline <= 4 * 110)
            => EvaluationRank(evaluate_baseline(b2)) >= EvaluationRank(ret.value)

----------------------------------------------------------------------------
(* SpecDegenerate: the statistic primitives and both classifiers applied to *)
(* recordings without usable samples, for every risk-factor dict            *)

\* no sample, one sample, and samples that are all outside [50, 200]
DegenerateSeries == {<<>>, <<140>>, <<210, 30>>}

VariabilityMethods == {"short_term", "long_term", "other"}

InitDegenerate ==
    /\ args \in [fhr_series : DegenerateSeries,
                 risk_factors : {RiskDict(p) : p \in SUBSET RiskKeys},
                 ga_weeks : {31, 37}]
    /\ ret = NotCalled
    /\ SvcIdle

CallCalculateVariability(method) ==
    /\ ret.fn = "none"
    /\ ret' = [fn |-> "calculate_variability", method |-> method,
               value |-> IF method = "short_term"
                         THEN calculate_variability(args.fhr_series)
                         ELSE calculate_variability_by(args.fhr_series, method)]
    /\ UNCHANGED <<args, svcVars>>

NextDegenerate ==
    \/ CallCalcBaseline
    \/ \E method \in VariabilityMethods : CallCalculateVariability(method)
    \/ CallClassifyFigo
    \/ CallClassifyNichd

SpecDegenerate == InitDegenerate /\ [][NextDegenerate]_vars

----------------------------------------------------------------------------
(* SpecHypoxia: the hypoxia estimator applied to bounded recordings, and   *)
(* calculate_window_risk applied to bounded window summaries               *)

\* steady stretches at 0, 100, 108, 140, 163 and 170 bpm, and two oscillating ones
HypoxiaSegs ==
    {<<0, 0, 60>>, <<100, 0, 60>>, <<108, 0, 60>>, <<140, 0, 60>>, <<163, 0, 60>>,
     <<170, 0, 60>>, <<140, 10, 60>>, <<140, 40, 30>>}

\* recordings one sample either side of a window boundary, and a five-minute one
WindowEdgeSeries ==
    {Expand(<<<<140, 0, 119>>>>), Expand(<<<<140, 40, 60>>, <<100, 0, 61>>>>),
     Expand(<<<<140, 0, 90>>, <<100, 0, 89>>>>), Expand(<<<<163, 0, 120>>, <<140, 40, 119>>>>),
     Expand(<<<<140, 0, 100>>, <<100, 0, 100>>, <<170, 0, 100>>>>)}

HypoxiaSeries == {Expand(segs) : segs \in SegSeqs(HypoxiaSegs)} \cup WindowEdgeSeries

\* no contractions recorded, a recording shorter than one window with one
\* contraction, and a long one with a contraction every other sample
UcSeriesSet ==
    {<<>>, Expand(<<<<10, 0, 40>>, <<40, 0, 30>>, <<10, 0, 30>>>>), Expand(<<<<10, 30, 240>>>>)}

VariabilityInputs == {NoneValue, Rat(0, 1), Rat(2, 1), Rat(3, 1), Rat(49, 10), Rat(5, 1)}

\* timestamps of a recording of n samples at 1 Hz
Timestamps(n) == [i \in 1..n |-> i - 1]

\* the variability values passed with a whole recording: missing, low, normal
RecordingVariability == {NoneValue, Rat(3, 1), Rat(5, 1)}

WindowInputs ==
    [fn : {"calculate_window_risk"},
     baseline : {0, 400, 420, 436, 440, 640, 641, 660, 664},
     variability : VariabilityInputs,
     uc_count : {0, 2},
     accel_present : BOOLEAN, decel_present : BOOLEAN,
     accel_count : 0..3, decel_count : {0, 4, 5, 9, 10, 11, 120}]

HypoxiaInputs ==
    {[fn |-> "calculate_hypoxia_risk", fhr_series |-> s, uc_series |-> u,
      variability_value |-> v, time_series |-> Timestamps(Len(s))] :
        s \in HypoxiaSeries, u \in UcSeriesSet, v \in RecordingVariability}

InitHypoxia ==
    /\ args \in WindowInputs \cup HypoxiaInputs
    /\ ret = NotCalled
    /\ SvcIdle

CallCalculateWindowRisk ==
    /\ ret.fn = "none"
    /\ args.fn = "calculate_window_risk"
    /\ ret' = [fn |-> "calculate_window_risk",
               value |-> calculate_window_risk(args.baseline, args.variability,
                             args.uc_count, args.accel_present, args.decel_present,
                             args.accel_count, args.decel_count)]
    /\ UNCHANGED <<args, svcVars>>

CallCalculateHypoxiaRisk ==
    /\ ret.fn = "none"
    /\ args.fn = "calculate_hypoxia_risk"
    /\ ret' = [fn |-> "calculate_hypoxia_risk",
               value |-> calculate_hypoxia_risk(args.fhr_series, args.uc_series,
                             args.variability_value, args.time_series)]
    /\ UNCHANGED <<args, svcVars>>

NextHypoxia == CallCalculateWindowRisk \/ CallCalculateHypoxiaRisk

SpecHypoxia == InitHypoxia /\ [][NextHypoxia]_vars

\* C6: every risk of calculate_window_risk and every point of
\* calculate_hypoxia_risk lies in [0,1] (0..10 tenths).
C6_RiskInUnitInterval ==
    /\ ret.fn = "calculate_window_risk" => (0 <= ret.value /\ ret.value <= 10)
    /\ ret.fn = "calculate_hypoxia_risk" =>
           \A k \in 1..Len(ret.value) : 0 <= ret.value[k].risk /\ ret.value[k].risk <= 10

\* an all-zero window with no variability value was scored, at the top of the range
C6_Witness ==
    /\ ret.fn = "calculate_hypoxia_risk"
    /\ IsNone(args.variability_value)
    /\ Len(ret.value) >= 1
    /\ \A k \in 1..120 : args.fhr_series[k] = 0
    /\ ret.value[1].risk >= 5

\* the baseline term of C19, for a baseline in quarter bpm
ClaimedBaselineTerm(b) ==
    CASE b = 0 -> 2
      [] b \in (4 * 110)..(4 * 160) -> 0
      [] b # 0 /\ b \in (4 * 105)..(4 * 110 - 1) \cup (4 * 160 + 1)..(4 * 165) -> 1
      [] OTHER -> 2

\* the variability term of C19
ClaimedVariabilityTerm(v) ==
    CASE IsNone(v) -> 2
      [] ~IsNone(v) /\ v.num = 0 -> 2
      [] ~IsNone(v) /\ v.num # 0 /\ v.num >= 5 * v.den -> 0
      [] ~IsNone(v) /\ v.num # 0 /\ 3 * v.den <= v.num /\ v.num < 5 * v.den -> 1
      [] OTHER -> 2

\* the sum S of C19 for the window summary in args
ClaimedWindowSum ==
    ClaimedBaselineTerm(args.baseline) + ClaimedVariabilityTerm(args.variability)
    + (IF args.decel_present THEN 2 ELSE 0) + (IF args.accel_present THEN 0 ELSE 1)
    + Max(0, Min(1, 2 - args.accel_count)) + Min(2, args.decel_count \div 5)

WindowAlonePoint(k) ==
    LET lo == 60 * k
        fhr == Slice(args.fhr_series, lo, lo + 120)
        uc == IF lo + 120 <= Len(args.uc_series)
              THEN Slice(args.uc_series, lo, lo + 120) ELSE <<>>
    IN  calculate_hypoxia_risk(fhr, uc, args.variability_value, Timestamps(120))[1]

\* C15: for n samples and n timestamps calculate_hypoxia_risk returns
\* max(0, floor((n-120)/60)+1) points; the k-th point (from 0) has the risk of
\* the samples [60k, 60k+120) and the timestamp at index 60k+60, and the
\* output times increase strictly.
C15_WindowPoints ==
    ret.fn = "calculate_hypoxia_risk" =>
        LET n == Len(args.fhr_series)
        IN  /\ Len(ret.value) = Max(0, (n - 120) \div 60 + 1)
            /\ \A k \in 0..(Len(ret.value) - 1) :
                   /\ ret.value[k + 1].time = args.time_series[60 * k + 60 + 1]
                   /\ ret.value[k + 1].risk = WindowAlonePoint(k).risk
            /\ \A k \in 1..(Len(ret.value) - 1) : ret.value[k].time < ret.value[k + 1].time

\* a five-minute recording gave four points whose risks differ
C15_Witness ==
    /\ ret.fn = "calculate_hypoxia_risk"
    /\ Len(args.fhr_series) = 300
    /\ Len(ret.value) = 4
    /\ ret.value[1].risk # ret.value[4].risk

\* a recording one sample short of a second window gave one point
C15_WitnessOneShort ==
    /\ ret.fn = "calculate_hypoxia_risk"
    /\ Len(args.fhr_series) = 179
    /\ Len(ret.value) = 1

----------------------------------------------------------------------------
(* SpecPredict: extract_features and predict_timeframe applied to bounded  *)
(* recordings and risk-factor dicts                                        *)

\* a steady stretch, signal loss, a low stretch, swings of 70 and of 10 bpm, a
\* rising and a falling pair
PredictSegs ==
    {<<140, 0, 12>>, <<0, 0, 12>>, <<105, 0, 14>>, <<100, 70, 12>>, <<140, 10, 12>>,
     <<140, 1, 2>>, <<141, -1, 2>>}

PredictSeries == {Expand(segs) : segs \in SegSeqs(PredictSegs)}

\* risk scores 0, 1, 2, 3, 4 and 17
PredictRiskSets ==
    {{}, {"anemia"}, {"diabetes"}, {"preeclampsia"}, {"diabetes", "hypertension"}, RiskKeys}

InitPredict ==
    /\ args \in [fhr_series : PredictSeries, risk_factors : {RiskDict(p) : p \in PredictRiskSets},
                 timeframe : Timeframes]
    /\ ret = NotCalled
    /\ SvcIdle

\* predict_timeframe on the features of the recording; risk_level_before is the
\* value of risk_level when the horizon adjustment is reached
CallPredictTimeframe ==
    /\ ret.fn = "none"
    /\ LET features == extract_features(args.fhr_series, <<>>, args.risk_factors)
       IN  ret' = [fn |-> "predict_timeframe",
                   risk_level_before |-> AccumulatedRisk(features),
                   value |-> predict_timeframe(features, args.timeframe)]
    /\ UNCHANGED <<args, svcVars>>

\* predict_outcomes on the recording, without a UC series
CallPredictOutcomes ==
    /\ ret.fn = "none"
    /\ ret' = [fn |-> "predict_outcomes",
               value |-> predict_outcomes(args.fhr_series, <<>>, args.risk_factors)]
    /\ UNCHANGED <<args, svcVars>>

NextPredict == CallPredictTimeframe \/ CallPredictOutcomes

SpecPredict == InitPredict /\ [][NextPredict]_vars

\* n times the deviation of each sample from the mean
Deviations(s) == [i \in 1..Len(s) |-> Len(s) * s[i] - SumSeq(s)]

\* the std term of C20, in thousandths: std^2 is sum(dev^2) / n^3
ClaimedStdTerm(s) ==
    LET n == Len(s)
        sq == SumSeq([i \in 1..n |-> Deviations(s)[i] * Deviations(s)[i]])
    IN  IF sq < 25 * n * n * n \/ n = 0 THEN 300
        ELSE IF sq > 625 * n * n * n THEN 200 ELSE 0

\* the trend term of C20: the slope is 2 * sum((2x-n+1) * dev) / (n * sum((2x-n+1)^2))
ClaimedTrendTerm(s) ==
    LET n == Len(s)
        cx == [i \in 1..n |-> 2 * (i - 1) - n + 1]
        num == 2 * SumSeq([i \in 1..n |-> cx[i] * Deviations(s)[i]])
        den == n * SumSeq([i \in 1..n |-> cx[i] * cx[i]])
    IN  IF n < 2 THEN 0
        ELSE IF 2 * num < -den THEN 200
        ELSE IF 2 * num > den THEN 100 ELSE 0

\* the risk-score term of C20: min(risk_score / 10, 0.3)
ClaimedScoreTerm(f) == Min(100 * ClaimedScore(f), 300)

\* the mean of the recording is outside [110, 160]; no sample gives a mean of 0
MeanOutside(s) == SumSeq(s) < 110 * Len(s) \/ SumSeq(s) > 160 * Len(s) \/ s = <<>>

\* the baseline of the recording is outside [110, 160]
BaselineOutside(s) == calc_baseline(s) < 4 * 110 \/ calc_baseline(s) > 4 * 160

C28_MonotoneInHorizon ==
    ret.fn = "predict_outcomes" =>
        LET p == ret.value.by_timeframe
            rank == [status \in {"normal", "warning", "danger"} |->
                        IF status = "normal" THEN 0 ELSE IF status = "warning" THEN 1 ELSE 2]
        IN  /\ p["15min"].risk_level <= p["30min"].risk_level
            /\ p["30min"].risk_level <= p["60min"].risk_level
            /\ rank[p["15min"].status] <= rank[p["30min"].status]
            /\ rank[p["30min"].status] <= rank[p["60min"].status]

\* risk levels that grow with the horizon and reach danger at 60 minutes only
C28_Witness ==
    /\ ret.fn = "predict_outcomes"
    /\ ret.value.by_timeframe["15min"].risk_level < ret.value.by_timeframe["30min"].risk_level
    /\ ret.value.by_timeframe["30min"].status = "warning"
    /\ ret.value.by_timeframe["60min"].status = "danger"

\* a risk level the clamp holds at 1 from the 30-minute horizon on
C28_WitnessClamp ==
    /\ ret.fn = "predict_outcomes"
    /\ ret.value.by_timeframe["15min"].risk_level < 10000
    /\ ret.value.by_timeframe["30min"].risk_level = 10000
    /\ ret.value.by_timeframe["60min"].risk_level = 10000

\* the horizon factor of C21, in tenths
ClaimedHorizonFactor(timeframe) ==
    CASE timeframe = "15min" -> 10 [] timeframe = "30min" -> 12 [] timeframe = "60min" -> 15

\* the accumulated risk times the horizon factor, clamped to [0,1], in
\* ten-thousandths
ClaimedRiskLevel ==
    LET scaled == ret.risk_level_before * ClaimedHorizonFactor(args.timeframe)
    IN  IF scaled < 0 THEN 0 ELSE IF scaled > 10000 THEN 10000 ELSE scaled

\* C21: predict_timeframe multiplies the accumulated risk by the horizon
\* factor, clamps it to [0,1] and then buckets it: below 0.3 normal with
\* confidence 0.85, below 0.6 warning with 0.70, else danger with 0.60; the
\* reported risk_level lies in [0,1].
C21_HorizonBuckets ==
    ret.fn = "predict_timeframe" =>
        /\ ret.value.risk_level = ClaimedRiskLevel
        /\ ret.value.risk_level \in 0..10000
        /\ ClaimedRiskLevel < 3000 =>
               ret.value.status = "normal" /\ ret.value.confidence = 85
        /\ (3000 <= ClaimedRiskLevel /\ ClaimedRiskLevel < 6000) =>
               ret.value.status = "warning" /\ ret.value.confidence = 70
        /\ ClaimedRiskLevel >= 6000 =>
               ret.value.status = "danger" /\ ret.value.confidence = 60

\* an accumulated risk of 0.4 becomes 0.6 and danger at the 60-minute horizon
C21_Witness ==
    /\ ret.fn = "predict_timeframe"
    /\ args.timeframe = "60min"
    /\ ret.risk_level_before = 400
    /\ ret.value.risk_level = 6000
    /\ ret.value.status = "danger"

\* an accumulated risk of 1.0 is clamped at the 30-minute horizon
C21_WitnessClamp ==
    /\ ret.fn = "predict_timeframe"
    /\ args.timeframe = "30min"
    /\ ret.risk_level_before = 1000
    /\ ret.value.risk_level = 10000

----------------------------------------------------------------------------
(* SpecRiskForecast: _predict_hypoxia_risk_for_timeframe applied to        *)
(* bounded hypoxia-risk histories, with the current risk its caller passes *)

MaxHistory == 4

\* risks in tenths: every short history over 0, 0.2, 0.5 and 1
ShortHistories == UNION {[1..n -> {0, 2, 5, 10}] : n \in 0..MaxHistory}

\* ten points: a slow rise, a slow fall, a steep rise, a steep fall, a fall
\* to zero, and a flat stretch
TenPointTails ==
    {[i \in 1..10 |-> (i - 1) \div 2], [i \in 1..10 |-> 9 - (i - 1) \div 2],
     [i \in 1..10 |-> i], [i \in 1..10 |-> 11 - i], [i \in 1..10 |-> 10 - i],
     [i \in 1..10 |-> 5]}

\* histories longer than the ten points the trend looks at
LongHistories == {h \o t : h \in {<<>>, <<10>>, <<0, 10>>}, t \in TenPointTails}

\* the list of {time, risk} points with the given risks
HistoryOf(risks) == [i \in 1..Len(risks) |-> [time |-> 60 * i, risk |-> risks[i]]]

\* current_hypoxia_risk of _generate_forecast_with_hypoxia_risk
CurrentRisk(history) == IF history # <<>> THEN history[Len(history)].risk ELSE 0

InitRiskForecast ==
    /\ args \in {[hypoxia_risk_history |-> HistoryOf(r), current_risk |-> CurrentRisk(HistoryOf(r)),
                   timeframe |-> tf] : r \in ShortHistories \cup LongHistories, tf \in Timeframes}
    /\ ret = NotCalled
    /\ SvcIdle

CallPredictHypoxiaRisk ==
    /\ ret.fn = "none"
    /\ ret' = [fn |-> "_predict_hypoxia_risk_for_timeframe",
               value |-> predict_hypoxia_risk_for_timeframe(args.current_risk,
                             args.hypoxia_risk_history, args.timeframe)]
    /\ UNCHANGED <<args, svcVars>>

NextRiskForecast == CallPredictHypoxiaRisk

SpecRiskForecast == InitRiskForecast /\ [][NextRiskForecast]_vars

\* the risks (tenths) of the last at most 10 points of the history
LastTen(history) ==
    LET n == Len(history)
    IN  [i \in 1..(IF n > 10 THEN 10 ELSE n) |-> history[(IF n > 10 THEN n - 10 ELSE 0) + i].risk]

\* the least-squares slope of risks y (tenths) against 0..n-1, as the
\* rational sum((x - mx)(y - my)) / sum((x - mx)^2) with both sums scaled by 2n
CenteredSlope(y) ==
    LET n == Len(y)
        cx == [i \in 1..n |-> 2 * (i - 1) - (n - 1)]
        dy == [i \in 1..n |-> n * y[i] - SumSeq(y)]
    IN  Rat(2 * SumSeq([i \in 1..n |-> cx[i] * dy[i]]), n * SumSeq([i \in 1..n |-> cx[i] * cx[i]]))

RECURSIVE Gcd(_, _)
Gcd(a, b) == IF b = 0 THEN a ELSE Gcd(b, a % b)

\* a rational with a positive denominator in lowest terms
Lowest(r) ==
    LET g == Gcd(Abs(r.num), r.den)
    IN  Rat(r.num \div g, r.den \div g)

\* the trend of C22: the slope of the risks times 10 (the slope of the tenths),
\* clamped to [-1, 1]
ClaimedTrend(history) ==
    LET sl == Lowest(CenteredSlope(LastTen(history)))
    IN  IF sl.num > sl.den THEN Rat(1, 1)
        ELSE IF sl.num < -sl.den THEN Rat(-1, 1) ELSE sl

\* clamp(current * (1 + trend * m), 0, 1) of C22
ClaimedPrediction ==
    LET t == ClaimedTrend(args.hypoxia_risk_history)
        m == CASE args.timeframe = "15min" -> 11 [] args.timeframe = "30min" -> 13
               [] args.timeframe = "60min" -> 16
        v == Lowest(Rat(args.current_risk * (10 * t.den + t.num * m), 100 * t.den))
    IN  IF Len(args.hypoxia_risk_history) < 2 THEN Rat(args.current_risk, 10)
        ELSE IF v.num < 0 THEN Rat(0, 1)
        ELSE IF v.num > v.den THEN Rat(1, 1) ELSE v

RatEq(a, b) == Lowest(a) = Lowest(b)

\* C22: the predicted hypoxia risk is clamp(current * (1 + trend * m), 0, 1)
\* with m = 1.1 / 1.3 / 1.6 and trend the slope of the last at most 10 risks
\* times 10 clamped to [-1,1]; with fewer than 2 points it is the current
\* risk; it lies in [0,1]; a current risk of 0 predicts 0.
C22_PredictedHypoxiaRisk ==
    ret.fn = "_predict_hypoxia_risk_for_timeframe" =>
        /\ ret.value.den > 0
        /\ RatEq(ret.value, ClaimedPrediction)
        /\ 0 <= ret.value.num /\ ret.value.num <= ret.value.den
        /\ args.current_risk = 0 => ret.value.num = 0
        /\ args.hypoxia_risk_history = <<>> => ret.value.num = 0

\* a history of more than ten points that rises slowly: the prediction lies
\* strictly between the current risk and 1
C22_Witness ==
    /\ ret.fn = "_predict_hypoxia_risk_for_timeframe"
    /\ Len(args.hypoxia_risk_history) = 12
    /\ args.current_risk = 4
    /\ 10 * ret.value.num > 4 * ret.value.den
    /\ ret.value.num < ret.value.den

\* a rising history whose current risk is 0 (it fell at the end) predicts 0
C22_WitnessZero ==
    /\ ret.fn = "_predict_hypoxia_risk_for_timeframe"
    /\ Len(args.hypoxia_risk_history) >= 2
    /\ args.current_risk = 0
    /\ \E i \in 1..Len(args.hypoxia_risk_history) : args.hypoxia_risk_history[i].risk > 0
    /\ ret.value.num = 0

----------------------------------------------------------------------------
(* SpecStatus: _determine_forecast_status applied to every combination of  *)
(* component results                                                       *)

ClassifierResults(labels) ==
    {NoResult, ErrorResult}
        \cup {Result([code |-> c, label |-> labels[c + 1]]) : c \in 0..2}

Statuses == {"normal", "warning", "danger"}

PredictorResults ==
    {NoResult, ErrorResult}
        \cup {Result([by_timeframe |-> [tf \in Timeframes |-> [status |-> st[tf]]]]) :
                 st \in [Timeframes -> Statuses]}

\* predicted risks on both sides of the 0.4 and 0.7 thresholds, in hundredths
RiskHundredths == {0, 40, 41, 70, 71, 100}

InitStatus ==
    /\ args \in [figo_result : ClassifierResults(<<"Normal", "Suspicious", "Pathological">>),
                 nichd_result : ClassifierResults(<<"Category I", "Category II",
                                                    "Category III">>),
                 ai_result : PredictorResults,
                 hypoxia_risk : {Rat(h, 100) : h \in RiskHundredths},
                 timeframe : Timeframes]
    /\ ret = NotCalled
    /\ SvcIdle

CallDetermineForecastStatus ==
    /\ ret.fn = "none"
    /\ ret' = [fn |-> "_determine_forecast_status",
               out |-> determine_forecast_status(args.figo_result, args.nichd_result,
                           args.ai_result, args.hypoxia_risk, args.timeframe)]
    /\ UNCHANGED <<args, svcVars>>

NextStatus == CallDetermineForecastStatus

SpecStatus == InitStatus /\ [][NextStatus]_vars

Severity(status) ==
    IF status = "normal" THEN 0 ELSE IF status = "warning" THEN 1 ELSE 2

StatusReturned == ret.fn = "_determine_forecast_status" /\ ~ret.out.raised

\* C1: the status _determine_forecast_status returns is at least as severe as
\* the base status it derived; a base status of danger is returned as danger.
C1_NeverDowngrades ==
    StatusReturned =>
        LET base == BaseStatus(args.figo_result, args.nichd_result, args.ai_result,
                               args.timeframe)
        IN  /\ Severity(ret.out.value) >= Severity(base)
            /\ base = "danger" => ret.out.value = "danger"

\* a danger base status met a predicted risk in the middle band and stayed danger
C1_Witness ==
    /\ StatusReturned
    /\ BaseStatus(args.figo_result, args.nichd_result, args.ai_result, args.timeframe)
           = "danger"
    /\ args.hypoxia_risk = Rat(41, 100)
    /\ ret.out.value = "danger"

\* the classifier results that are present and carry a code
CodesPresent ==
    {r.value.code : r \in {x \in {args.figo_result, args.nichd_result} : x.kind = "result"}}

\* the base status as C14 states it
ClaimedBaseStatus ==
    IF args.ai_result.kind = "result"
    THEN args.ai_result.value.by_timeframe[args.timeframe].status
    ELSE IF \E c \in CodesPresent : c >= 2 THEN "danger"
    ELSE IF \E c \in CodesPresent : c = 1 THEN "warning"
    ELSE "normal"

\* the status as C14 states it
ClaimedStatus ==
    IF 100 * args.hypoxia_risk.num > 70 * args.hypoxia_risk.den THEN "danger"
    ELSE IF 100 * args.hypoxia_risk.num > 40 * args.hypoxia_risk.den
            /\ ClaimedBaseStatus = "normal" THEN "warning"
    ELSE ClaimedBaseStatus

\* C14: the returned status is the predictor's status of the horizon if a
\* predictor result is present, else danger if a present classifier has code
\* >= 2, else warning if one has code 1, else normal; then a predicted risk
\* above 0.7 gives danger and one above 0.4 turns normal into warning.  The
\* base status is the same with FIGO and NICHD exchanged.
C14_ForecastStatus ==
    StatusReturned =>
        /\ ret.out.value = ClaimedStatus
        /\ BaseStatus(args.figo_result, args.nichd_result, args.ai_result, args.timeframe)
               = ClaimedBaseStatus
        /\ BaseStatus(args.nichd_result, args.figo_result, args.ai_result, args.timeframe)
               = ClaimedBaseStatus

\* no predictor, FIGO Suspicious and NICHD Category III, no hypoxia risk
C14_Witness ==
    /\ StatusReturned
    /\ args.ai_result = NoResult
    /\ GetCode(args.figo_result) = 1
    /\ GetCode(args.nichd_result) = 2
    /\ args.hypoxia_risk = Rat(0, 100)
    /\ ret.out.value = "danger"

----------------------------------------------------------------------------
(* Spec: the session service.  A patient row and the uploaded files change *)
(* between requests; each analyze request runs analyze_ctg_session on what *)
(* is stored and writes the result to the session row.                     *)

PatientRow(present, null) ==
    [k \in RiskKeys |-> IF k \in null THEN "None"
                        ELSE IF k \in present THEN "True" ELSE "False"]

\* risk score 1, risk score 5, and a row whose diabetes column is NULL
SvcPatients ==
    {PatientRow({"anemia"}, {}), PatientRow({"preeclampsia", "hypertension"}, {}),
     PatientRow({"anemia"}, {"diabetes"})}

\* the uploaded CSV files by content: a recording of 4 minutes that deteriorates,
\* a bradycardic one shorter than a hypoxia window, one of 3 minutes swinging
\* between 140 and 170 bpm, a UC recording with one contraction, and a UC file
\* with a header and no rows
FileContents ==
    [fhr_deteriorating |-> Expand(<<<<140, 10, 60>>, <<140, 0, 60>>, <<100, 0, 120>>>>),
     fhr_short |-> Expand(<<<<90, 4, 40>>>>),
     fhr_swinging |-> Expand(<<<<140, 30, 180>>>>),
     uc_one_contraction |-> Expand(<<<<10, 0, 40>>, <<40, 0, 30>>, <<10, 0, 170>>>>),
     uc_no_rows |-> <<>>]

FhrUploads == {"fhr_deteriorating", "fhr_short", "fhr_swinging"}
UcUploads == {"uc_one_contraction", "uc_no_rows"}

\* read_csv_data: the values of the rows, the times being 0, 1, 2, ...
read_csv_data(file_path) == FileContents[file_path]

\* the requests' module switches: all, the heuristics, the predictor, FIGO, none
AnalysisParams ==
    {<<TRUE, TRUE, TRUE>>, <<TRUE, TRUE, FALSE>>, <<FALSE, FALSE, TRUE>>,
     <<TRUE, FALSE, FALSE>>, <<FALSE, FALSE, FALSE>>}

Init ==
    /\ args = <<>>
    /\ ret = NotCalled
    /\ patient \in SvcPatients
    /\ files = [fhr_file_path |-> "None", uc_file_path |-> "None"]
    /\ db_session = EmptySessionRow
    /\ analysis_result = [kind |-> "none"]
    /\ test_data_generator = TestDataGenerator

\* PUT /patients/{id}: the risk-factor columns are rewritten
UpdatePatient(p) ==
    /\ patient' = p
    /\ UNCHANGED <<files, db_session, analysis_result, test_data_generator, fnVars>>

\* POST /{session_id}/upload-fhr
UploadFhrFile(f) ==
    /\ files' = [files EXCEPT !.fhr_file_path = f]
    /\ UNCHANGED <<patient, db_session, analysis_result, test_data_generator, fnVars>>

\* POST /{session_id}/upload-uc
UploadUcFile(f) ==
    /\ files' = [files EXCEPT !.uc_file_path = f]
    /\ UNCHANGED <<patient, db_session, analysis_result, test_data_generator, fnVars>>

\* analyze_ctg_session on every stored input, worked out once
AnalysisTable ==
    [fhr \in FhrUploads, uc \in UcUploads, p \in SvcPatients, params \in AnalysisParams |->
        analysis_result_of(read_csv_data(fhr), read_csv_data(uc), p,
                           params[1], params[2], params[3])]

\* POST /{session_id}/analyze
AnalyzeSession(use_figo, use_nichd, use_ai) ==
    LET result == AnalysisTable[files.fhr_file_path, files.uc_file_path, patient,
                                <<use_figo, use_nichd, use_ai>>]
    IN  /\ IF files.fhr_file_path = "None" \/ files.uc_file_path = "None"
           THEN /\ analysis_result' = [kind |-> "http_400"]
                /\ UNCHANGED db_session
           ELSE IF result.raised
           THEN /\ analysis_result' = [kind |-> "http_500"]
                /\ UNCHANGED db_session
           ELSE /\ analysis_result' = [kind |-> "ok", value |-> result]
                \* analyze_ctg_session stores the result, the route stores it again
                /\ db_session' = update_session_analysis(
                                     update_session_analysis(db_session, result), result)
        /\ UNCHANGED <<patient, files, test_data_generator, fnVars>>

Next ==
    \/ \E p \in SvcPatients : UpdatePatient(p)
    \/ \E f \in FhrUploads : UploadFhrFile(f)
    \/ \E f \in UcUploads : UploadUcFile(f)
    \/ \E params \in AnalysisParams : AnalyzeSession(params[1], params[2], params[3])

Spec == Init /\ [][Next]_vars

Analyzed == analysis_result.kind = "ok"

\* the request analysed a patient row on which the predictor raises
PredictorRaised(use_ai) == use_ai /\ FeatureRaises(RiskFactorsOf(patient))

\* C5: when exactly one enabled component raises (here the predictor, on a NULL
\* risk-factor column), only its result is the error placeholder and the other
\* components' results are returned as they are computed without it.
C5_FailureIsolated ==
    [][\A params \in AnalysisParams :
         (/\ AnalyzeSession(params[1], params[2], params[3])
          /\ PredictorRaised(params[3])
          /\ Analyzed')
         => LET alone == AnalysisTable[files.fhr_file_path, files.uc_file_path, patient,
                                       <<params[1], params[2], FALSE>>]
            IN  /\ analysis_result'.value.ai_result = ErrorResult
                /\ analysis_result'.value.figo_result = alone.figo_result
                /\ analysis_result'.value.nichd_result = alone.nichd_result
                /\ analysis_result'.value.hypoxia_risk = alone.hypoxia_risk]_vars

\* the forecast of the horizon carries a status that is at least as severe as
\* the code of each classifier result of the analysis
ClassifierFloor(tf) ==
    LET f == analysis_result.value.forecasts[tf]
    IN  "status" \in DOMAIN f =>
            \A r \in {analysis_result.value.figo_result, analysis_result.value.nichd_result} :
                r.kind = "result" => Severity(f.status) >= r.value.code

\* C23 as stated: the status of every horizon is at least as severe as the
\* adjusted code of every enabled classifier (2 danger, 1 warning), whether or
\* not the predictor is enabled.
C23_AsStated == Analyzed => \A tf \in Timeframes : ClassifierFloor(tf)

\* C23 amended: the same when the analysis holds no predictor result.
C23_ClassifierFloorWithoutPredictor ==
    (Analyzed /\ analysis_result.value.ai_result = NoResult) =>
        \A tf \in Timeframes : ClassifierFloor(tf)

\* both classifiers ran without the predictor, FIGO found the recording
\* pathological, and every horizon is danger
C23_Witness ==
    /\ Analyzed
    /\ analysis_result.value.ai_result = NoResult
    /\ analysis_result.value.figo_result.kind = "result"
    /\ analysis_result.value.nichd_result.kind = "result"
    /\ analysis_result.value.figo_result.value.code = 2
    /\ \A tf \in Timeframes : analysis_result.value.forecasts[tf].status = "danger"

\* C24: after any sequence of analyses the stored session reflects only the
\* most recent one: a FIGO, NICHD or predictor result the latest analysis did
\* not produce, and a hypoxia-risk series it produced empty, are not left in
\* the row with values of an earlier analysis.
C24_StoreReflectsLatest ==
    Analyzed =>
        /\ ~Present(analysis_result.value.figo_result) => db_session.figo_result = NoneValue
        /\ ~Present(analysis_result.value.nichd_result) => db_session.nichd_result = NoneValue
        /\ ~Present(analysis_result.value.ai_result) => db_session.ai_result = NoneValue
        /\ analysis_result.value.hypoxia_risk = <<>> => db_session.hypoxia_risk = NoneValue

\* C8: every returned result holds three forecasts, each with a status in
\* {normal, warning, danger} and a predicted hypoxia risk in [0,1].
C8_ForecastsWellFormed ==
    Analyzed =>
        /\ DOMAIN analysis_result.value.forecasts = Timeframes
        /\ \A tf \in Timeframes :
               LET f == analysis_result.value.forecasts[tf]
               IN  /\ "status" \in DOMAIN f
                   /\ f.status \in Statuses
                   /\ f.hypoxia_risk.den > 0
                   /\ 0 <= f.hypoxia_risk.num
                   /\ f.hypoxia_risk.num <= f.hypoxia_risk.den

====
